---- MODULE Spec2Model ----
(***************************************************************************)
(* claude-spend: transcript readers, session builder, prompt grouper,      *)
(* cost/cache accountant and the parse pass that aggregates them.          *)
(*                                                                         *)
(* The repository carries several revisions of the parser side by side.   *)
(* They are told apart by the place of their extractSessionData:          *)
(*   "parser.js:99"    src/src/parser.js 1-1075   (estimateCost revision) *)
(*   "parser.js:1114"  src/src/parser.js 1076-1845 (Claude+Gemini+Codex)  *)
(*   "part_002:63"     src/unnamed/part_002 1-656  (per-token MODEL_PRICING)*)
(*   "part_002:688"    src/unnamed/part_002 657-1442 (computeCost revision)*)
(* The Gemini and Codex readers exist in "parser.js:1114" only.            *)
(*                                                                         *)
(* Money is kept exact: a rate is in cents per million tokens and a cost   *)
(* is tokens * rate, i.e. in units of 1e-8 USD.  The JavaScript code uses  *)
(* IEEE doubles; rounding of doubles is not modelled.                      *)
(***************************************************************************)
EXTENDS Integers, Sequences, FiniteSets, TLC

\* ------------------------------------------------------------------ bounds
MaxEntries == 3        \* entries of one transcript in SpecReader
MaxFiles == 2          \* transcript files of a directory in SpecCorpus
MaxChatFiles == 2      \* chat files of a Gemini chats directory
MaxLines == 3          \* lines of a JSONL file
MaxReaderFiles == 2    \* transcript files one tool reader finds
MaxTokens == 1         \* each token count of a priced query in SpecPricing
MaxSessions == 10      \* sessions of the snapshot in SpecInsights
MaxPrompts == 6        \* prompt groups of the snapshot in SpecInsights
MaxPasses == 2         \* parse passes the server starts in SpecServer
MaxEdits == 1          \* changes of the transcript files in SpecServer
MaxPipelines == 2      \* OTLP pipelines created in SpecServer
MaxClients == 1        \* open /api/events requests in SpecWatch

\* ------------------------------------------------------------ JSON values
Missing == -1          \* an absent numeric key of a JSON object
Null == "<null>"       \* JavaScript null / undefined where a string is expected

\* `x || 0` on a token counter
Num(x) == IF x = Missing \/ x = 0 THEN 0 ELSE x

\* `s || d` on a string: the empty string and null are falsy
OrElse(s, d) == IF s = "" \/ s = Null THEN d ELSE s

RECURSIVE SumSeq(_)
SumSeq(s) == IF s = <<>> THEN 0 ELSE Head(s) + SumSeq(Tail(s))

\* f applied to every element of a sequence
MapSeq(s, F(_)) == [i \in 1..Len(s) |-> F(s[i])]

\* ------------------------------------------------------------- model ids
UNKNOWN == "unknown"
SYNTHETIC == "<synthetic>"
Sonnet45 == "claude-sonnet-4-5"
Opus41 == "claude-opus-4-1"
Haiku35 == "claude-3-5-haiku-20241022"
Opus5 == "claude-opus-5-0"
Haiku5 == "claude-haiku-5"
GeminiPro == "gemini-2.5-pro"
GeminiUnknown == "gemini-unknown"
Gpt5 == "gpt-5"
GptUnknown == "gpt-unknown"

\* The hyphen-separated parts of the model ids used here (String.split('-')).
Parts(model) ==
  CASE model = Sonnet45 -> <<"claude", "sonnet", "4", "5">>
    [] model = Opus41 -> <<"claude", "opus", "4", "1">>
    [] model = Opus5 -> <<"claude", "opus", "5", "0">>
    [] model = Haiku35 -> <<"claude", "3", "5", "haiku", "20241022">>
    [] model = Haiku5 -> <<"claude", "haiku", "5">>
    [] model = GeminiPro -> <<"gemini", "2.5", "pro">>
    [] model = Gpt5 -> <<"gpt", "5">>
    [] OTHER -> <<model>>

HasPart(model, p) == \E i \in 1..Len(Parts(model)) : Parts(model)[i] = p

\* parts a, b occur next to each other: the regular expression /a-b/
Adjacent(model, a, b) ==
  \E i \in 1..(Len(Parts(model)) - 1) :
     Parts(model)[i] = a /\ Parts(model)[i + 1] = b

\* /claude-3[^-]*-family/ : "claude", one part that starts with 3, family
Legacy3(model, family) ==
  \E i \in 1..(Len(Parts(model)) - 2) :
     /\ Parts(model)[i] = "claude"
     /\ Parts(model)[i + 1] \in {"3", "3.5", "3.7"}
     /\ Parts(model)[i + 2] = family

\* ----------------------------------------------------------- rate tables
Rates(in, cw, cr, out) ==
  [input |-> in, cacheWrite |-> cw, cacheRead |-> cr, output |-> out]

OpusRates == Rates(1500, 1875, 150, 7500)
SonnetRates == Rates(300, 375, 30, 1500)
Haiku35Rates == Rates(80, 100, 8, 400)
Haiku45Rates == Rates(100, 125, 10, 500)
Opus45Rates == Rates(500, 625, 50, 2500)

PRICING_FALLBACK == SonnetRates
DEFAULT_PRICING == SonnetRates

\* parser.js:61 getPricing over the ordered PRICING list, first match wins
getPricingList(model) ==
  CASE Adjacent(model, "claude", "opus") -> OpusRates
    [] Adjacent(model, "claude", "sonnet") -> SonnetRates
    [] Adjacent(model, "claude", "haiku") -> Haiku35Rates
    [] Legacy3(model, "opus") -> OpusRates
    [] Legacy3(model, "sonnet") -> SonnetRates
    [] Legacy3(model, "haiku") -> Haiku35Rates
    [] OTHER -> PRICING_FALLBACK

\* part_002:25 getPricing by substring tests
getPricingIncludes(model) ==
  IF model = "" \/ model = Null THEN DEFAULT_PRICING
  ELSE IF HasPart(model, "opus")
       THEN IF Adjacent(model, "4", "6") THEN Opus45Rates
            ELSE IF Adjacent(model, "4", "5") THEN Opus45Rates
            ELSE IF Adjacent(model, "4", "1") THEN OpusRates
            ELSE OpusRates
  ELSE IF HasPart(model, "sonnet") THEN SonnetRates
  ELSE IF HasPart(model, "haiku")
       THEN IF Adjacent(model, "4", "5") THEN Haiku45Rates ELSE Haiku35Rates
  ELSE DEFAULT_PRICING

\* the four token counts at the rates p, in 1e-8 USD
Charge(p, freshInput, cacheWrite, cacheRead, output) ==
  freshInput * p.input + cacheWrite * p.cacheWrite
    + cacheRead * p.cacheRead + output * p.output

\* parser.js:69 estimateCost, in 1e-8 USD
estimateCost(model, freshInput, cacheWrite, cacheRead, output) ==
  Charge(getPricingList(model), freshInput, cacheWrite, cacheRead, output)

\* ------------------------------------------------- transcript entries
\* timestamps are ISO strings; split('T')[0] is their date
Stamp1 == "2026-01-05T10:00:00Z"
Stamp2 == "2026-01-06T09:00:00Z"
DateOf(ts) ==
  CASE ts = Stamp1 -> "2026-01-05"
    [] ts = Stamp2 -> "2026-01-06"
    [] OTHER -> "unknown"

\* user texts that start with <local-command or <command-name
CommandTexts == {"<command-name>/clear</command-name>"}

Usage(in, cw, cr, out) ==
  [input_tokens |-> in, cache_creation_input_tokens |-> cw,
   cache_read_input_tokens |-> cr, output_tokens |-> out]

EmptyUsage == Usage(Missing, Missing, Missing, Missing)

\* A Claude Code journal entry.  A block-array content carries in `text`
\* the joined and trimmed text of its text blocks ("" for a tool_result).
UserEntry(isString, text, isMeta) ==
  [type |-> "user", isMeta |-> isMeta, isString |-> isString, text |-> text,
   hasUsage |-> FALSE, usage |-> EmptyUsage, model |-> ""]

AssistantEntry(model, hasUsage, usage) ==
  [type |-> "assistant", isMeta |-> FALSE, isString |-> FALSE, text |-> "",
   hasUsage |-> hasUsage, usage |-> usage, model |-> model]

\* JSON.stringify of a block-array content: never the empty string
JSONstringify(entry) ==
  IF entry.text = "" THEN "[{\"type\":\"tool_result\"}]"
  ELSE "[{\"type\":\"text\"}]"

ClaudeVersions == {"parser.js:99", "parser.js:1114", "part_002:63", "part_002:688"}
Readers == ClaudeVersions \cup {"gemini", "codex"}

NoPending == [text |-> Null, timestamp |-> Null]

\* the entry is skipped by `continue` before it can become the pending message
isFiltered(entry) ==
  entry.isMeta \/ (entry.isString /\ entry.text \in CommandTexts)

\* pendingUserMessage = { text, timestamp } of a user entry
PendingOf(v, entry, ts) ==
  IF v = "parser.js:1114"
  THEN [text |-> IF entry.isString THEN entry.text ELSE JSONstringify(entry),
        timestamp |-> ts]
  ELSE [text |-> OrElse(entry.text, Null), timestamp |-> ts]

\* The Query pushed for an assistant entry.  Field names are those of
\* parser.js:149-162; part_002 names the fresh counter baseInputTokens (or,
\* at part_002:63, inputTokens), the cache-write counter cacheCreationTokens
\* and the cost `cost`.  A field the revision does not store is Missing.
\* `line` is the position of the entry in the transcript (history).
ClaudeQuery(v, entry, pending, line) ==
  LET usage == IF entry.hasUsage THEN entry.usage ELSE EmptyUsage
      model == OrElse(entry.model, UNKNOWN)
      fresh == Num(usage.input_tokens)
      cw == Num(usage.cache_creation_input_tokens)
      cr == Num(usage.cache_read_input_tokens)
      out == Num(usage.output_tokens)
      hasCache == v # "parser.js:1114"
      inputTokens == IF v = "part_002:63" THEN fresh ELSE fresh + cw + cr
      totalTokens == IF v = "part_002:63" THEN inputTokens + cw + cr + out
                     ELSE inputTokens + out
      cost == CASE v = "parser.js:99" -> estimateCost(model, fresh, cw, cr, out)
                [] v = "part_002:63" ->
                     Charge(getPricingIncludes(model), fresh, cw, cr, out)
                [] OTHER -> Missing
  IN [userPrompt |-> OrElse(pending.text, Null),
      userTimestamp |-> OrElse(pending.timestamp, Null),
      model |-> model,
      freshInputTokens |-> IF hasCache THEN fresh ELSE Missing,
      cacheWriteTokens |-> IF hasCache THEN cw ELSE Missing,
      cacheReadTokens |-> IF hasCache THEN cr ELSE Missing,
      inputTokens |-> inputTokens,
      outputTokens |-> out,
      totalTokens |-> totalTokens,
      estimatedCost |-> cost,
      line |-> line]

\* a reader that does not drop '<synthetic>' records
ClaudeEmitsSynthetic(v, entry) ==
  /\ entry.type = "assistant"
  /\ (v = "parser.js:99" \/ entry.hasUsage)

\* the assistant entry reaches queries.push
ClaudeEmits(v, entry) ==
  /\ entry.type = "assistant"
  /\ (v = "parser.js:99" \/ entry.hasUsage)
  /\ OrElse(entry.model, UNKNOWN) # SYNTHETIC

\* One iteration of `for (const entry of entries)` in extractSessionData.
\* st = [pending, currentModel, queries]; ts is the entry's timestamp, line its position.
ClaudeStep(v, entry, st, ts, line) ==
  LET isUser == entry.type = "user"
      skip == isUser /\ isFiltered(entry)
      pending == IF isUser /\ ~skip THEN PendingOf(v, entry, ts) ELSE st.pending
  IN [pending |-> pending,
      currentModel |-> st.currentModel,
      queries |-> IF ~skip /\ ClaudeEmits(v, entry)
                  THEN Append(st.queries, ClaudeQuery(v, entry, pending, line))
                  ELSE st.queries]

\* ------------------------------------------------------ Gemini reader
Tokens(in, cached, thoughts, tool, out) ==
  [input |-> in, cached |-> cached, thoughts |-> thoughts, tool |-> tool,
   output |-> out]

EmptyTokens == Tokens(Missing, Missing, Missing, Missing, Missing)

\* one element of sessionData.messages
GeminiUser(isString, text) ==
  [type |-> "user", isString |-> isString, text |-> text,
   hasTokens |-> FALSE, tokens |-> EmptyTokens, model |-> ""]

GeminiReply(model, hasTokens, tokens) ==
  [type |-> "gemini", isString |-> TRUE, text |-> "",
   hasTokens |-> hasTokens, tokens |-> tokens, model |-> model]

\* a Query of the revision "parser.js:1114": input, output and total only
PlainQuery(pending, model, inputTokens, outputTokens, line) ==
  [userPrompt |-> OrElse(pending.text, Null),
   userTimestamp |-> OrElse(pending.timestamp, Null),
   model |-> model,
   freshInputTokens |-> Missing,
   cacheWriteTokens |-> Missing,
   cacheReadTokens |-> Missing,
   inputTokens |-> inputTokens,
   outputTokens |-> outputTokens,
   totalTokens |-> inputTokens + outputTokens,
   estimatedCost |-> Missing,
   line |-> line]

GeminiQuery(msg, pending, line) ==
  LET t == msg.tokens
  IN PlainQuery(pending, OrElse(msg.model, GeminiUnknown),
                Num(t.input) + Num(t.cached) + Num(t.thoughts) + Num(t.tool),
                Num(t.output), line)

\* One iteration of `for (const msg of messages)` in parseGeminiSessions.
GeminiStep(msg, st, ts, line) ==
  LET pending == IF msg.type = "user"
                 THEN [text |-> IF msg.isString THEN msg.text
                                ELSE JSONstringify(msg),
                       timestamp |-> ts]
                 ELSE st.pending
  IN [pending |-> pending,
      currentModel |-> st.currentModel,
      queries |-> IF msg.type = "gemini" /\ msg.hasTokens
                  THEN Append(st.queries, GeminiQuery(msg, pending, line))
                  ELSE st.queries]

\* ------------------------------------------------------- Codex reader
CodexUsage(in, cached, out, reasoning) ==
  [input_tokens |-> in, cached_input_tokens |-> cached,
   output_tokens |-> out, reasoning_output_tokens |-> reasoning]

EmptyCodexUsage == CodexUsage(Missing, Missing, Missing, Missing)

\* entries of a Codex rollout file; `text` of a user response_item is the
\* joined and trimmed text of its content parts
CodexTurnContext(model) ==
  [type |-> "turn_context", role |-> "", text |-> "", hasUsage |-> FALSE,
   usage |-> EmptyCodexUsage, model |-> model]

CodexUser(text) ==
  [type |-> "response_item", role |-> "user", text |-> text,
   hasUsage |-> FALSE, usage |-> EmptyCodexUsage, model |-> ""]

\* event_msg with payload.type token_count; hasUsage: info.last_token_usage
CodexTokenCount(hasUsage, usage) ==
  [type |-> "token_count", role |-> "", text |-> "", hasUsage |-> hasUsage,
   usage |-> usage, model |-> ""]

CodexQuery(entry, pending, currentModel, line) ==
  LET usage == entry.usage
  IN PlainQuery(pending, currentModel,
                Num(usage.input_tokens) + Num(usage.cached_input_tokens),
                Num(usage.output_tokens) + Num(usage.reasoning_output_tokens),
                line)

\* a Codex reader that keeps the pending message as the other readers do
CodexKeepsPending(pending) == pending

\* pendingUserMessage after a token_count event was paired (parser.js:1438)
CodexAfterPairing(pending) == NoPending

\* One iteration of `for (const entry of entries)` in parseCodexSessions.
CodexStep(entry, st, ts, line) ==
  LET currentModel == IF entry.type = "turn_context" /\ entry.model # ""
                      THEN entry.model ELSE st.currentModel
      pending == IF entry.type = "response_item" /\ entry.role = "user"
                    /\ entry.text # ""
                 THEN [text |-> entry.text, timestamp |-> ts]
                 ELSE st.pending
      emits == entry.type = "token_count" /\ entry.hasUsage
  IN [pending |-> IF emits THEN CodexAfterPairing(pending) ELSE pending,
      currentModel |-> currentModel,
      queries |-> IF emits
                  THEN Append(st.queries,
                              CodexQuery(entry, pending, currentModel, line))
                  ELSE st.queries]

\* ------------------------------------------------------ session builder
\* the parser revision whose parseAllSessions aggregates a reader's sessions
RevisionOf(r) == IF r \in {"gemini", "codex"} THEN "parser.js:1114" ELSE r

\* a field that the revision does not store counts as 0 in a sum
Val(x) == IF x = Missing THEN 0 ELSE x

SumOf(qs, F(_)) == SumSeq(MapSeq(qs, F))

modelCount(qs, m) == Cardinality({i \in 1..Len(qs) : qs[i].model = m})

firstSeen(qs, m) ==
  CHOOSE i \in 1..Len(qs) :
    qs[i].model = m /\ \A j \in 1..(i - 1) : qs[j].model # m

\* Object.entries(modelCounts).sort((a, b) => b[1] - a[1])[0]?.[0] || dflt
\* (stable sort over keys in insertion order)
primaryModel(qs, dflt) ==
  IF qs = <<>> THEN dflt
  ELSE LET ms == {qs[i].model : i \in 1..Len(qs)}
       IN CHOOSE m \in ms :
            \A n \in ms :
               \/ modelCount(qs, m) > modelCount(qs, n)
               \/ /\ modelCount(qs, m) = modelCount(qs, n)
                  /\ firstSeen(qs, m) <= firstSeen(qs, n)

DefaultModel(r) ==
  CASE r = "gemini" -> GeminiUnknown
    [] r = "codex" -> GptUnknown
    [] OTHER -> UNKNOWN

\* a session total that leaves the cache tokens out in every revision
SessionTotalNoCache(v, inputTokens, cacheCreationTokens, cacheReadTokens, outputTokens) ==
  inputTokens + outputTokens

\* totalTokens of a session from its summed buckets
SessionTotal(v, inputTokens, cacheCreationTokens, cacheReadTokens, outputTokens) ==
  IF v = "part_002:63"
  THEN inputTokens + cacheCreationTokens + cacheReadTokens + outputTokens
  ELSE inputTokens + outputTokens

\* The object pushed to `sessions` for one transcript whose queries are qs.
BuildSession(r, qs, sessionId, project, firstTimestamp) ==
  LET v == RevisionOf(r)
      inputTokens == SumOf(qs, LAMBDA q : q.inputTokens)
      outputTokens == SumOf(qs, LAMBDA q : q.outputTokens)
      fresh == SumOf(qs, LAMBDA q : Val(q.freshInputTokens))
      cw == SumOf(qs, LAMBDA q : Val(q.cacheWriteTokens))
      cr == SumOf(qs, LAMBDA q : Val(q.cacheReadTokens))
      cost == SumOf(qs, LAMBDA q : Val(q.estimatedCost))
  IN [sessionId |-> sessionId,
      project |-> project,
      date |-> IF firstTimestamp = Null THEN "unknown" ELSE DateOf(firstTimestamp),
      timestamp |-> firstTimestamp,
      model |-> primaryModel(qs, DefaultModel(r)),
      queryCount |-> Len(qs),
      queries |-> qs,
      freshInputTokens |-> fresh,
      cacheWriteTokens |-> cw,
      cacheReadTokens |-> cr,
      inputTokens |-> inputTokens,
      outputTokens |-> outputTokens,
      totalTokens |-> SessionTotal(v, inputTokens, cw, cr, outputTokens),
      estimatedCost |-> cost]

\* ------------------------------------------------------- prompt grouper
\* The open group of flushPrompt / flushProjectPrompt: the closure variables
\* currentPrompt, promptInput, promptOutput, promptCacheCreation,
\* promptCacheRead, curCost, curConts, cumulativeContext and
\* runningContextTracker; members lists the positions of the absorbed
\* queries (promptQueries).
NoGroup ==
  [prompt |-> Null, input |-> 0, output |-> 0, cacheCreation |-> 0,
   cacheRead |-> 0, cost |-> 0, conts |-> 0, context |-> 0, running |-> 0,
   members |-> <<>>]

\* what the list tells the two groupers apart: "global" is flushPrompt
\* (allPrompts), "project" is flushProjectPrompt (p.allPrompts)
GroupTotal(v, list, g) ==
  IF v = "part_002:63" /\ list = "global"
  THEN g.input + g.output + g.cacheCreation + g.cacheRead
  ELSE g.input + g.output

\* flushPrompt(): the groups appended by one call (none or one)
flushPrompt(v, list, g, session) ==
  IF g.prompt # Null /\ GroupTotal(v, list, g) > 0
  THEN << [prompt |-> g.prompt,
           inputTokens |-> g.input,
           outputTokens |-> g.output,
           totalTokens |-> GroupTotal(v, list, g),
           estimatedCost |-> g.cost,
           continuations |-> g.conts,
           contextTokensAtTurn |-> g.context,
           date |-> session.date,
           sessionId |-> session.sessionId,
           members |-> g.members] >>
  ELSE <<>>

\* a grouper that opens a group for every query that carries a prompt
OpensOnEveryPrompt(g, q) == q.userPrompt # Null

\* the query opens a new group
Opens(g, q) == q.userPrompt # Null /\ q.userPrompt # g.prompt

\* a grouper whose running context counts the output of a query as well
AbsorbWithOutput(v, list, g, q, i) ==
  LET base == IF Opens(g, q)
              THEN [NoGroup EXCEPT !.prompt = q.userPrompt,
                                   !.context = g.running,
                                   !.running = g.running]
              ELSE IF list = "project" /\ q.userPrompt = Null
                   THEN [g EXCEPT !.conts = g.conts + 1]
                   ELSE g
  IN [base EXCEPT !.input = base.input + q.inputTokens,
                  !.output = base.output + q.outputTokens,
                  !.cacheCreation = base.cacheCreation + Val(q.cacheWriteTokens),
                  !.cacheRead = base.cacheRead + Val(q.cacheReadTokens),
                  !.cost = base.cost + Val(q.estimatedCost),
                  !.running = base.running + q.inputTokens + q.outputTokens,
                  !.members = Append(base.members, i)]

\* the open group after the loop body ran for query number i
Absorb(v, list, g, q, i) ==
  LET base == IF Opens(g, q)
              THEN [NoGroup EXCEPT !.prompt = q.userPrompt,
                                   !.context = g.running,
                                   !.running = g.running]
              ELSE IF list = "project" /\ q.userPrompt = Null
                   THEN [g EXCEPT !.conts = g.conts + 1]
                   ELSE g
  IN [base EXCEPT !.input = base.input + q.inputTokens,
                  !.output = base.output + q.outputTokens,
                  !.cacheCreation = base.cacheCreation + Val(q.cacheWriteTokens),
                  !.cacheRead = base.cacheRead + Val(q.cacheReadTokens),
                  !.cost = base.cost + Val(q.estimatedCost),
                  !.running = base.running + q.inputTokens,
                  !.members = Append(base.members, i)]

RECURSIVE GroupFrom(_, _, _, _, _, _)
GroupFrom(v, list, session, g, i, acc) ==
  LET qs == session.queries
  IN IF i > Len(qs) THEN acc \o flushPrompt(v, list, g, session)
     ELSE GroupFrom(v, list, session, Absorb(v, list, g, qs[i], i), i + 1,
                    IF Opens(g, qs[i])
                    THEN acc \o flushPrompt(v, list, g, session)
                    ELSE acc)

\* the prompt groups one session adds to allPrompts / p.allPrompts
PromptGroups(v, list, session) == GroupFrom(v, list, session, NoGroup, 1, <<>>)

\* ------------------------------------- pricing of revision part_002:688
Numerals == {"0", "1", "3", "4", "5", "6", "7", "20241022", "20250514"}
DateLike == {"20241022", "20250514"}      \* six digits or more
Families == {"opus", "sonnet", "haiku"}

NoKey == <<>>
Key(family, major, minor) == <<family, major, minor>>

\* part_002:878 modelToKey: the four patterns in order, on the parts ps of
\* the id; each pattern is the set of positions where it matches.
\* (opus|sonnet|haiku)-(\d+)-(\d+) with a minor of fewer than 6 digits
NewAt(ps) ==
  {i \in 1..(Len(ps) - 2) : /\ ps[i] \in Families
                            /\ ps[i + 1] \in Numerals
                            /\ ps[i + 2] \in Numerals
                            /\ ps[i + 2] \notin DateLike}

\* (opus|sonnet|haiku)-(\d+)(?:-\d{6,}|$)
BaseAt(ps) ==
  {i \in 1..(Len(ps) - 1) : /\ ps[i] \in Families
                            /\ ps[i + 1] \in Numerals
                            /\ (i + 1 = Len(ps) \/ ps[i + 2] \in DateLike)}

\* claude-(\d+)-(\d+)-(opus|sonnet|haiku)
OldAt(ps) ==
  {i \in 1..(Len(ps) - 3) : /\ ps[i] = "claude"
                            /\ ps[i + 1] \in Numerals
                            /\ ps[i + 2] \in Numerals
                            /\ ps[i + 3] \in Families}

\* claude-(\d+)-(opus|sonnet|haiku)
Old1At(ps) ==
  {i \in 1..(Len(ps) - 2) : /\ ps[i] = "claude"
                            /\ ps[i + 1] \in Numerals
                            /\ ps[i + 2] \in Families}

\* String.prototype.match returns the leftmost match
Leftmost(S) == CHOOSE i \in S : \A j \in S : i <= j

\* the key built from the match at position i: family at i + f, major at
\* i + a, minor at i + b (b < 0: the pattern has no minor)
KeyAt(ps, i, f, a, b) == Key(ps[i + f], ps[i + a], IF b < 0 THEN "" ELSE ps[i + b])

KeyOfParts(ps) ==
  IF NewAt(ps) # {} THEN KeyAt(ps, Leftmost(NewAt(ps)), 0, 1, 2)
  ELSE IF BaseAt(ps) # {} THEN KeyAt(ps, Leftmost(BaseAt(ps)), 0, 1, -1)
  ELSE IF OldAt(ps) # {} THEN KeyAt(ps, Leftmost(OldAt(ps)), 3, 1, 2)
  ELSE IF Old1At(ps) # {} THEN KeyAt(ps, Leftmost(Old1At(ps)), 2, 1, -1)
  ELSE NoKey

modelToKey(model) == KeyOfParts(Parts(model))

Haiku3Rates == Rates(25, 30, 3, 125)

\* part_002:759 VERSION_PRICING (baseInput is the field `input` here)
VERSION_KEYS ==
  {Key("opus", "4", "6"), Key("opus", "4", "5"), Key("opus", "4", "1"),
   Key("opus", "4", ""), Key("opus", "3", ""),
   Key("sonnet", "4", "6"), Key("sonnet", "4", "5"), Key("sonnet", "4", ""),
   Key("sonnet", "3", "7"), Key("sonnet", "3", "5"),
   Key("haiku", "4", "5"), Key("haiku", "3", "5"), Key("haiku", "3", "")}

VERSION_PRICING(key) ==
  CASE key \in {Key("opus", "4", "6"), Key("opus", "4", "5")} -> Opus45Rates
    [] key[1] = "opus" -> OpusRates
    [] key[1] = "sonnet" -> SonnetRates
    [] key = Key("haiku", "4", "5") -> Haiku45Rates
    [] key = Key("haiku", "3", "5") -> Haiku35Rates
    [] OTHER -> Haiku3Rates

\* part_002:776 FAMILY_PRICING, tried in the order opus, sonnet, haiku
FAMILY_PRICING(model) ==
  IF HasPart(model, "opus") THEN OpusRates
  ELSE IF HasPart(model, "sonnet") THEN SonnetRates
  ELSE IF HasPart(model, "haiku") THEN Haiku45Rates
  ELSE SonnetRates

\* A dynamic pricing table is a set of [key, rates] rows; NotLoaded is the
\* module-level `dynamicPricing = null`.
NotLoaded == {[key |-> NoKey, rates |-> Rates(0, 0, 0, 0)]}
EmptyTable == {}
HasRow(table, key) == \E row \in table : row.key = key
RowOf(table, key) == (CHOOSE row \in table : row.key = key).rates

\* part_002:786 loadDynamicPricing: the table after the call.  cacheFile is
\* the content of pricing-cache.json: NotLoaded when the file is absent,
\* unreadable or older than seven days.
loadDynamicPricing(dyn, cacheFile) ==
  IF dyn # NotLoaded THEN dyn
  ELSE IF cacheFile # NotLoaded THEN cacheFile
  ELSE EmptyTable

\* part_002:863 getPricing, given the loaded dynamic table
PricingOfKey(key, model, dyn) ==
  IF key # NoKey /\ key \in VERSION_KEYS THEN VERSION_PRICING(key)
  ELSE IF key # NoKey /\ HasRow(dyn, key) THEN RowOf(dyn, key)
  ELSE FAMILY_PRICING(model)

getPricingDynamic(model, dyn) == PricingOfKey(modelToKey(model), model, dyn)

\* part_002:915 computeCost, in 1e-8 USD
CostAt(p, baseInputTokens, cacheWriteTokens, cacheReadTokens, outputTokens) ==
  [withCache |-> baseInputTokens * p.input + cacheWriteTokens * p.cacheWrite
                   + cacheReadTokens * p.cacheRead + outputTokens * p.output,
   withoutCache |-> (baseInputTokens + cacheWriteTokens + cacheReadTokens) * p.input
                      + outputTokens * p.output]

computeCost(model, dyn, baseInputTokens, cacheWriteTokens, cacheReadTokens, outputTokens) ==
  CostAt(getPricingDynamic(model, dyn), baseInputTokens, cacheWriteTokens,
         cacheReadTokens, outputTokens)

\* part_002:899 ensurePricingForModels: does the call reach fetchPricingFromWeb
Unpriced(key, dyn) ==
  key # NoKey /\ key \notin VERSION_KEYS /\ ~HasRow(dyn, key)

NeedsFetch(modelIds, dyn, attempted) ==
  /\ \E id \in modelIds : Unpriced(modelToKey(id), dyn)
  /\ ~attempted

\* ------------------------------------------------------------ aggregation
\* A JavaScript object used as a map is a sequence of buckets in insertion
\* order (the order of Object.values); f names the key field.
HasBucket(map, f, k) == \E i \in 1..Len(map) : map[i][f] = k

\* map[k] = F(map[k] or init)
Upsert(map, f, k, init, F(_)) ==
  IF HasBucket(map, f, k)
  THEN [i \in 1..Len(map) |-> IF map[i][f] = k THEN F(map[i]) ELSE map[i]]
  ELSE Append(map, F(init))

\* Array.prototype.sort with (a, b) => b.totalTokens - a.totalTokens: stable
RECURSIVE InsertDesc(_, _)
InsertDesc(sorted, x) ==
  IF sorted = <<>> THEN <<x>>
  ELSE IF Head(sorted).totalTokens >= x.totalTokens
       THEN <<Head(sorted)>> \o InsertDesc(Tail(sorted), x)
       ELSE <<x>> \o sorted

RECURSIVE SortDescFrom(_, _, _)
SortDescFrom(seq, i, acc) ==
  IF i > Len(seq) THEN acc
  ELSE SortDescFrom(seq, i + 1, InsertDesc(acc, seq[i]))

SortDesc(seq) == SortDescFrom(seq, 1, <<>>)

\* String.localeCompare on the dates used here
DateRank(date) ==
  CASE date = "2026-01-05" -> 1
    [] date = "2026-01-06" -> 2
    [] OTHER -> 3

RECURSIVE InsertByDate(_, _)
InsertByDate(sorted, x) ==
  IF sorted = <<>> THEN <<x>>
  ELSE IF DateRank(Head(sorted).date) <= DateRank(x.date)
       THEN <<Head(sorted)>> \o InsertByDate(Tail(sorted), x)
       ELSE <<x>> \o sorted

RECURSIVE SortByDateFrom(_, _, _)
SortByDateFrom(seq, i, acc) ==
  IF i > Len(seq) THEN acc
  ELSE SortByDateFrom(seq, i + 1, InsertByDate(acc, seq[i]))

\* Object.values(dailyMap) left in insertion order
InsertionOrder(seq) == seq
SortByDate(seq) == SortByDateFrom(seq, 1, <<>>)

TopN(seq, n) == SubSeq(seq, 1, IF Len(seq) < n THEN Len(seq) ELSE n)

\* dailyMap[date] after one session (the cache and cost fields that two of
\* the revisions also keep per day are not carried)
NewDay(date) ==
  [date |-> date, inputTokens |-> 0, outputTokens |-> 0, totalTokens |-> 0,
   sessions |-> 0, queries |-> 0]

AddDaily(dailyMap, session) ==
  IF session.date = "unknown" THEN dailyMap
  ELSE Upsert(dailyMap, "date", session.date, NewDay(session.date),
              LAMBDA d : [d EXCEPT !.inputTokens = @ + session.inputTokens,
                                   !.outputTokens = @ + session.outputTokens,
                                   !.totalTokens = @ + session.totalTokens,
                                   !.sessions = @ + 1,
                                   !.queries = @ + session.queryCount])

NewModel(model) ==
  [model |-> model, inputTokens |-> 0, outputTokens |-> 0, totalTokens |-> 0,
   freshInputTokens |-> 0, cacheWriteTokens |-> 0, cacheReadTokens |-> 0,
   estimatedCost |-> 0, queryCount |-> 0]

\* only '<synthetic>' kept out of the per-model buckets
SentinelsSyntheticOnly == {SYNTHETIC}

\* the models kept out of every per-model bucket
Sentinels == {SYNTHETIC, UNKNOWN}

\* one iteration of the `// Model` loop
AddModel(modelMap, q) ==
  IF q.model \in Sentinels THEN modelMap
  ELSE Upsert(modelMap, "model", q.model, NewModel(q.model),
              LAMBDA m : [m EXCEPT !.inputTokens = @ + q.inputTokens,
                                   !.outputTokens = @ + q.outputTokens,
                                   !.totalTokens = @ + q.totalTokens,
                                   !.freshInputTokens = @ + Val(q.freshInputTokens),
                                   !.cacheWriteTokens = @ + Val(q.cacheWriteTokens),
                                   !.cacheReadTokens = @ + Val(q.cacheReadTokens),
                                   !.estimatedCost = @ + Val(q.estimatedCost),
                                   !.queryCount = @ + 1])

RECURSIVE AddModels(_, _, _)
AddModels(modelMap, qs, i) ==
  IF i > Len(qs) THEN modelMap
  ELSE AddModels(AddModel(modelMap, qs[i]), qs, i + 1)

\* ----------------------------------------------------- project buckets
NewProject(proj) ==
  [project |-> proj, inputTokens |-> 0, outputTokens |-> 0, totalTokens |-> 0,
   freshInputTokens |-> 0, cacheWriteTokens |-> 0, cacheReadTokens |-> 0,
   estimatedCost |-> 0, sessionCount |-> 0, queryCount |-> 0,
   modelMap |-> <<>>, allPrompts |-> <<>>]

\* one iteration of `for (const session of sessions)` that fills projectMap
AddProject(v, projectMap, session) ==
  Upsert(projectMap, "project", session.project, NewProject(session.project),
         LAMBDA p : [p EXCEPT
            !.inputTokens = @ + session.inputTokens,
            !.outputTokens = @ + session.outputTokens,
            !.totalTokens = @ + session.totalTokens,
            !.freshInputTokens = @ + session.freshInputTokens,
            !.cacheWriteTokens = @ + session.cacheWriteTokens,
            !.cacheReadTokens = @ + session.cacheReadTokens,
            !.estimatedCost = @ + session.estimatedCost,
            !.sessionCount = @ + 1,
            !.queryCount = @ + session.queryCount,
            !.modelMap = AddModels(@, session.queries, 1),
            !.allPrompts = @ \o PromptGroups(v, "project", session)])

RECURSIVE AddProjects(_, _, _, _)
AddProjects(v, projectMap, ss, i) ==
  IF i > Len(ss) THEN projectMap
  ELSE AddProjects(v, AddProject(v, projectMap, ss[i]), ss, i + 1)

\* a model bucket with the two costs of computeCost (part_002:1152, 1188)
ModelOut(m, cost) ==
  [model |-> m.model, totalTokens |-> m.totalTokens,
   inputTokens |-> m.inputTokens, outputTokens |-> m.outputTokens,
   queryCount |-> m.queryCount,
   costWithCache |-> cost.withCache, costWithoutCache |-> cost.withoutCache]

WithCost(m, dyn) ==
  ModelOut(m, computeCost(m.model, dyn, m.freshInputTokens, m.cacheWriteTokens,
                          m.cacheReadTokens, m.outputTokens))

NoCost(m) == ModelOut(m, [withCache |-> Missing, withoutCache |-> Missing])

\* the pricing table that the per-project costs are computed with
\* (part_002:1150-1176 runs before ensurePricingForModels at 1185)
ProjectPricing(dynBefore, dynAfter) == dynBefore

\* one element of projectBreakdown
ProjectRow(v, p, modelBd) ==
  [project |-> p.project,
   inputTokens |-> p.inputTokens,
   outputTokens |-> p.outputTokens,
   totalTokens |-> p.totalTokens,
   sessionCount |-> p.sessionCount,
   queryCount |-> p.queryCount,
   costWithCache |-> IF v = "part_002:688"
                     THEN SumOf(modelBd, LAMBDA m : m.costWithCache)
                     ELSE Missing,
   costWithoutCache |-> IF v = "part_002:688"
                        THEN SumOf(modelBd, LAMBDA m : m.costWithoutCache)
                        ELSE Missing,
   modelBreakdown |-> modelBd,
   topPrompts |-> TopN(SortDesc(p.allPrompts), 10)]

ProjectOut(v, p, dyn) ==
  ProjectRow(v, p,
             SortDesc(MapSeq(p.modelMap,
               LAMBDA m : IF v = "part_002:688" THEN WithCost(m, dyn)
                          ELSE NoCost(m))))

\* --------------------------------------------------------- grand totals
\* a ratio num/den of two doubles is kept as the pair; 0 is 0/1
Ratio(num, den) == [num |-> num, den |-> den]

\* the denominator of cacheHitRate
HitRateDenominator(v, fresh, cacheWrite, cacheRead) ==
  IF v = "parser.js:99" THEN fresh + cacheRead
  ELSE fresh + cacheWrite + cacheRead

cacheHitRate(v, fresh, cacheWrite, cacheRead) ==
  LET den == HitRateDenominator(v, fresh, cacheWrite, cacheRead)
  IN IF den > 0 THEN Ratio(cacheRead, den) ELSE Ratio(0, 1)

\* parser.js:510 cacheSavingsDollars: the term of one query, in 1e-8 USD
SavedAt(p, cacheReadTokens) == cacheReadTokens * (p.input - p.cacheRead)

querySavings(q) == SavedAt(getPricingList(q.model), q.cacheReadTokens)

\* part_002:390 totalSaved
totalSaved(totalCacheReadTokens) ==
  totalCacheReadTokens * (DEFAULT_PRICING.input - DEFAULT_PRICING.cacheRead)

cacheSavings(v, ss) ==
  CASE v = "parser.js:99" ->
         SumOf(ss, LAMBDA x : SumOf(x.queries, querySavings))
    [] v = "part_002:63" -> totalSaved(SumOf(ss, LAMBDA x : x.cacheReadTokens))
    [] OTHER -> Missing

HasCacheTotals(v) == v \in {"parser.js:99", "part_002:63"}

grandTotals(v, ss, modelBreakdown) ==
  LET fresh == SumOf(ss, LAMBDA x : x.freshInputTokens)
      cw == SumOf(ss, LAMBDA x : x.cacheWriteTokens)
      cr == SumOf(ss, LAMBDA x : x.cacheReadTokens)
  IN [totalSessions |-> Len(ss),
      totalQueries |-> SumOf(ss, LAMBDA x : x.queryCount),
      totalTokens |-> SumOf(ss, LAMBDA x : x.totalTokens),
      totalInputTokens |-> SumOf(ss, LAMBDA x : x.inputTokens),
      totalOutputTokens |-> SumOf(ss, LAMBDA x : x.outputTokens),
      totalCacheReadTokens |-> IF HasCacheTotals(v) THEN cr ELSE Missing,
      totalCacheWriteTokens |-> IF HasCacheTotals(v) THEN cw ELSE Missing,
      totalEstimatedCost |-> IF HasCacheTotals(v)
                             THEN SumOf(ss, LAMBDA x : x.estimatedCost)
                             ELSE Missing,
      cacheSavings |-> cacheSavings(v, ss),
      cacheHitRate |-> IF HasCacheTotals(v) THEN cacheHitRate(v, fresh, cw, cr)
                       ELSE Ratio(Missing, 1),
      costWithCache |-> IF v = "part_002:688"
                        THEN SumOf(modelBreakdown, LAMBDA m : m.costWithCache)
                        ELSE Missing,
      costWithoutCache |-> IF v = "part_002:688"
                           THEN SumOf(modelBreakdown, LAMBDA m : m.costWithoutCache)
                           ELSE Missing]

\* `totals: {}` of the early return: every key is absent
NoTotals ==
  [totalSessions |-> Missing, totalQueries |-> Missing, totalTokens |-> Missing,
   totalInputTokens |-> Missing, totalOutputTokens |-> Missing,
   totalCacheReadTokens |-> Missing, totalCacheWriteTokens |-> Missing,
   totalEstimatedCost |-> Missing, cacheSavings |-> Missing,
   cacheHitRate |-> Ratio(Missing, 1), costWithCache |-> Missing,
   costWithoutCache |-> Missing]

\* ------------------------------------------------------- the parse pass
\* one loop iteration of whichever reader r is
Step(r, e, st, ts, line) ==
  CASE r = "gemini" -> GeminiStep(e, st, ts, line)
    [] r = "codex" -> CodexStep(e, st, ts, line)
    [] OTHER -> ClaudeStep(r, e, st, ts, line)

StartOfFile == [pending |-> NoPending, currentModel |-> GptUnknown, queries |-> <<>>]

\* the first timestamp found in a transcript whose entries all carry ts
firstTimestamp(es, ts) == IF es = <<>> THEN Null ELSE ts

NoSessions == [sessions |-> <<>>, allPrompts |-> <<>>, dailyMap |-> <<>>, modelMap |-> <<>>]

\* part_002:694 a string content that carries a <working_directory> tag, and
\* the path the match captures (Null: no tag)
WdBeta == "<working_directory>D:\\beta</working_directory>"
WdAlpha == "<working_directory>Alpha</working_directory>"
workingDirectory(entry) ==
  IF ~entry.isString THEN Null
  ELSE CASE entry.text = WdBeta -> "D:\\beta"
         [] entry.text = WdAlpha -> "Alpha"
         [] OTHER -> Null

\* part_002:667 the drive prefix becomes X--, every backslash a hyphen
pathToProjectDir(absPath) == IF absPath = "D:\\beta" THEN "D--beta" ELSE absPath
toLowerCase(str) ==
  CASE str = "Alpha" -> "alpha"
    [] str = "D--beta" -> "d--beta"
    [] OTHER -> str

\* part_002:749 the path with the highest count, the first seen among equals
wdCount(es, wd) == Cardinality({i \in 1..Len(es) : workingDirectory(es[i]) = wd})
wdFirst(es, wd) ==
  CHOOSE i \in 1..Len(es) :
    workingDirectory(es[i]) = wd /\ \A j \in 1..(i - 1) : workingDirectory(es[j]) # wd
detectedWd(es) ==
  LET wds == {workingDirectory(es[i]) : i \in 1..Len(es)} \ {Null}
  IN IF wds = {} THEN Null
     ELSE CHOOSE wd \in wds :
            \A other \in wds :
               \/ wdCount(es, wd) > wdCount(es, other)
               \/ /\ wdCount(es, wd) = wdCount(es, other)
                  /\ wdFirst(es, wd) <= wdFirst(es, other)

\* the project when the two directory names are compared as they are
effectiveProjectExact(r, es, projectDir) ==
  IF r # "part_002:688" \/ detectedWd(es) = Null THEN projectDir
  ELSE IF pathToProjectDir(detectedWd(es)) # projectDir
       THEN pathToProjectDir(detectedWd(es))
       ELSE projectDir

\* part_002:750 the project of the session: the detected working directory
\* unless it names the directory the transcript lies in; the other revisions
\* and readers use the directory
effectiveProject(r, es, projectDir) ==
  IF r # "part_002:688" \/ detectedWd(es) = Null THEN projectDir
  ELSE IF toLowerCase(pathToProjectDir(detectedWd(es))) # toLowerCase(projectDir)
       THEN pathToProjectDir(detectedWd(es))
       ELSE projectDir

\* The body of the per-file loop after the queries qs of one transcript were
\* extracted: skip an empty transcript, otherwise push the session, its
\* prompt groups, and add it to its day and its queries to their models.
Pushed(r, acc, session) ==
  [sessions |-> Append(acc.sessions, session),
   allPrompts |-> acc.allPrompts \o PromptGroups(RevisionOf(r), "global", session),
   dailyMap |-> AddDaily(acc.dailyMap, session),
   modelMap |-> AddModels(acc.modelMap, session.queries, 1)]

RecordSession(r, acc, qs, es, ts, project, sessionId) ==
  IF es = <<>> \/ qs = <<>> THEN acc
  ELSE Pushed(r, acc, BuildSession(r, qs, sessionId, effectiveProject(r, es, project),
                                    firstTimestamp(es, ts)))

\* parser.js:470-503: the groups of one session merged by prompt and session
MergePrompt(map, g) ==
  Upsert(map, "key", <<g.prompt, g.sessionId>>,
         [key |-> <<g.prompt, g.sessionId>>, prompt |-> g.prompt,
          inputTokens |-> 0, outputTokens |-> 0, totalTokens |-> 0,
          estimatedCost |-> 0, date |-> g.date, sessionId |-> g.sessionId,
          members |-> <<>>],
         LAMBDA m : [m EXCEPT !.inputTokens = @ + g.inputTokens,
                              !.outputTokens = @ + g.outputTokens,
                              !.totalTokens = @ + g.inputTokens + g.outputTokens,
                              !.estimatedCost = @ + g.estimatedCost,
                              !.members = @ \o g.members])

RECURSIVE MergePrompts(_, _, _)
MergePrompts(map, gs, i) ==
  IF i > Len(gs) THEN map ELSE MergePrompts(MergePrompt(map, gs[i]), gs, i + 1)

RECURSIVE allPromptsMap(_, _, _)
allPromptsMap(map, ss, i) ==
  IF i > Len(ss) THEN map
  ELSE allPromptsMap(MergePrompts(map, PromptGroups("parser.js:99", "project", ss[i]), 1),
                     ss, i + 1)

\* The outcome of fetchPricingFromWeb: it failed, or it parsed `models`.
WebTable == {[key |-> Key("opus", "5", "0"), rates |-> Rates(400, 500, 40, 2000)]}
WebOutcomes ==
  {[ok |-> FALSE, models |-> EmptyTable], [ok |-> TRUE, models |-> EmptyTable],
   [ok |-> TRUE, models |-> WebTable]}

AfterFetch(dyn, cacheFile, web) ==
  IF web.ok /\ web.models # EmptyTable
  THEN [dyn |-> web.models, cacheFile |-> web.models]
  ELSE [dyn |-> dyn, cacheFile |-> cacheFile]

\* The rest of parseAllSessions after the per-file loop.  mod is the
\* module-level state [dynamicPricing, fetchAttempted] with the cache file
\* pricingCache; the result carries the returned object and the new mod.
Returned(v, acc, mod, ss, dyn1, fetch, after, modelBreakdown, prompts) ==
  [out |-> [sessions |-> ss,
            dailyUsage |-> SortByDate(acc.dailyMap),
            modelBreakdown |-> modelBreakdown,
            projectBreakdown |->
              IF v = "parser.js:1114" THEN <<>>
              ELSE SortDesc(MapSeq(AddProjects(v, <<>>, ss, 1),
                     LAMBDA p : ProjectOut(v, p, ProjectPricing(dyn1, after.dyn)))),
            allPrompts |-> prompts,
            topPrompts |-> IF v = "parser.js:99"
                           THEN TopN(SortDesc(allPromptsMap(<<>>, ss, 1)), 20)
                           ELSE TopN(prompts, 20),
            totals |-> IF v = "parser.js:1114" /\ ss = <<>> THEN NoTotals
                       ELSE grandTotals(v, ss, modelBreakdown)],
   mod |-> [dynamicPricing |-> after.dyn,
            fetchAttempted |-> mod.fetchAttempted \/ fetch,
            pricingCache |-> after.cacheFile]]

\* ensurePricingForModels ran (fetch: it reached fetchPricingFromWeb) and
\* left the table and the cache file `after`
Ensured(v, acc, mod, ss, dyn1, fetch, after) ==
  Returned(v, acc, mod, ss, dyn1, fetch, after,
           MapSeq(acc.modelMap,
                  LAMBDA m : IF v = "part_002:688" THEN WithCost(m, after.dyn)
                             ELSE NoCost(m)),
           IF v = "parser.js:99" THEN acc.allPrompts ELSE SortDesc(acc.allPrompts))

\* the pricing table dyn1 is loaded
Loaded(v, acc, mod, web, ss, dyn1, fetch) ==
  Ensured(v, acc, mod, ss, dyn1, fetch,
          IF fetch THEN AfterFetch(dyn1, mod.pricingCache, web)
          ELSE [dyn |-> dyn1, cacheFile |-> mod.pricingCache])

Sorted(v, acc, mod, web, ss, dyn1) ==
  Loaded(v, acc, mod, web, ss, dyn1,
         /\ v = "part_002:688"
         /\ NeedsFetch({acc.modelMap[i].model : i \in 1..Len(acc.modelMap)},
                       dyn1, mod.fetchAttempted))

Finalize(v, acc, mod, web) ==
  Sorted(v, acc, mod, web, SortDesc(acc.sessions),
         IF v = "part_002:688"
         THEN loadDynamicPricing(mod.dynamicPricing, mod.pricingCache)
         ELSE mod.dynamicPricing)

\* extractSessionData and its siblings over a whole transcript
RECURSIVE ScanFrom(_, _, _, _, _)
ScanFrom(r, es, ts, i, st) ==
  IF i > Len(es) THEN st
  ELSE ScanFrom(r, es, ts, i + 1, Step(r, es[i], st, ts, i))

\* ------------------------------------------------------ the state machine
VARIABLES
  reader,              \* which reader runs: a Claude revision, "gemini", "codex"
  remaining,           \* transcript files of the directory listing not yet read
  project, stamp,      \* project directory and timestamps of the current file
  entries,             \* entries of the current file that the loop has visited
  pendingUserMessage, currentModel, queries,   \* locals of the entry loop
  corpus,              \* transcript files [entries, stamp, project]: those read
                       \* so far (SpecReader), the directory (SpecCorpus)
  sessions, allPrompts, dailyMap, modelMap,    \* locals of parseAllSessions
  dynamicPricing, fetchAttempted,              \* module-level state (part_002:688)
  pricingCache,        \* content of pricing-cache.json
  pc,                  \* "scan", "done" (first pass returned), "rescan", "again"
  out, out2,           \* what the first and the second pass returned
  status, found,       \* per tool reader: state of its promise, sessions pushed
  filesSeen, settled,  \* files it has visited, value its caught promise settled to
  aggregate,           \* `sessions` of the aggregator once Promise.all resolved
  fileLines, lines,    \* lines parseJSONLFile has read, the array it returns
  chatFiles, chatSessions,  \* chat files the Gemini loop visited, sessions pushed
  quote,               \* the last pricing lookup: model id, rates, cost
  snapshot,            \* sessions and allPrompts handed to generateInsights
  insights,            \* ids of the insights it returned, in order
  disk,                \* version of the transcript files on disk
  started,             \* parse passes started so far: a pass is named by its rank
  cachedData,          \* createServer: the cached aggregate [pass, version]
  currentOtel,         \* createServer: the pipeline in use, 0 for null
  otlpStatus,          \* createServer: the OTLP status object
  exportTimer,         \* createServer: the interval timer, 0 for null
  timers,              \* the intervals set and not cleared
  pipelines,           \* pipelines created so far
  meterProvider,       \* otlp.js: module-level provider, 0 for null
  meter,               \* the newest provider: its instruments; older live ones
  reported,            \* what the last forceFlush collected
  handlers,            \* per route or timer: where its invocation stands
  debounceTimer,       \* server.js: 1 while the watcher's timeout is pending
  invalidated,         \* passes started and disk version at the last invalidation
  sseClients           \* server.js: responses of the open /api/events requests

passVars ==
  <<reader, remaining, project, stamp, entries, pendingUserMessage, currentModel,
    queries, corpus, sessions, allPrompts, dailyMap, modelMap, dynamicPricing,
    fetchAttempted, pricingCache, pc, out, out2>>

fanoutVars == <<status, found, filesSeen, settled, aggregate>>
jsonlVars == <<fileLines, lines, chatFiles, chatSessions>>
pricingVars == <<quote>>
insightVars == <<snapshot, insights>>
serverVars ==
  <<disk, started, cachedData, currentOtel, otlpStatus, exportTimer, timers,
    pipelines, meterProvider, meter, reported, handlers, debounceTimer,
    invalidated, sseClients>>
watchVars == <<debounceTimer, invalidated, sseClients>>
otlpVars ==
  <<currentOtel, otlpStatus, exportTimer, timers, pipelines, meterProvider, meter,
    reported>>
appVars == <<pricingVars, insightVars, serverVars>>
vars == <<passVars, fanoutVars, jsonlVars, appVars>>

Tools == {"claude", "gemini", "codex"}

\* the parts of the state a specification does not exercise
FanoutIdle ==
  /\ status = [t \in Tools |-> "created"]
  /\ found = [t \in Tools |-> <<>>]
  /\ filesSeen = [t \in Tools |-> 0]
  /\ settled = [t \in Tools |-> <<>>]
  /\ aggregate = [built |-> FALSE, sessions |-> <<>>]

JsonlIdle ==
  /\ fileLines = <<>>
  /\ lines = <<>>
  /\ chatFiles = <<>>
  /\ chatSessions = <<>>

NoQuote == [revision |-> "none"]
PricingIdle == quote = NoQuote

NoInsights == [revision |-> "none"]
InsightsIdle ==
  /\ snapshot = [sessions |-> <<>>, allPrompts |-> <<>>]
  /\ insights = NoInsights

NoData == [pass |-> 0, version |-> 0]
NoMeter == [pipeline |-> 0, live |-> FALSE, points |-> {}, others |-> {}]
NoReport == [pipeline |-> 0, points |-> {}]
Disabled ==
  [enabled |-> FALSE, endpoint |-> Null, lastExport |-> Null, lastError |-> Null,
   exports |-> Missing]
Routes == {"timer", "data", "refresh", "connect", "disconnect"}
Idle ==
  [pc |-> "idle", data |-> NoData, response |-> 0, error |-> Null, otel |-> 0]

WatchIdle == debounceTimer = 0 /\ invalidated = NoData /\ sseClients = 0

ServerIdle ==
  /\ WatchIdle
  /\ disk = 0 /\ started = 0 /\ cachedData = NoData
  /\ currentOtel = 0 /\ otlpStatus = Disabled /\ exportTimer = 0
  /\ timers = {} /\ pipelines = 0
  /\ meterProvider = 0 /\ meter = NoMeter /\ reported = NoReport
  /\ handlers = [r \in Routes |-> Idle]

AppIdle == PricingIdle /\ InsightsIdle /\ ServerIdle

NoOut == [totals |-> "none"]
Projects == {"alpha", "beta"}

\* token counts of the records used as inputs
U1 == Usage(3, 1, 2, 1)
U2 == Usage(Missing, Missing, Missing, 2)

\* the entries a transcript of the reader is made of in SpecReader
ReaderAlphabet(r) ==
  CASE r = "gemini" ->
         {GeminiUser(TRUE, "fix"), GeminiUser(TRUE, ""), GeminiUser(FALSE, "yes"),
          GeminiReply(GeminiPro, TRUE, Tokens(2, 1, 1, 0, 1)),
          GeminiReply("", TRUE, Tokens(1, Missing, Missing, Missing, Missing)),
          GeminiReply(GeminiPro, FALSE, EmptyTokens)}
    [] r = "codex" ->
         {CodexTurnContext(Gpt5), CodexTurnContext(""),
          CodexUser("fix"), CodexUser("yes"), CodexUser(""),
          CodexTokenCount(TRUE, CodexUsage(2, 1, 1, 1)),
          CodexTokenCount(FALSE, EmptyCodexUsage)}
    [] OTHER ->
         {UserEntry(TRUE, "fix", FALSE), UserEntry(TRUE, "yes", FALSE),
          UserEntry(FALSE, "", FALSE),
          UserEntry(TRUE, "<command-name>/clear</command-name>", FALSE),
          UserEntry(TRUE, "fix", TRUE), UserEntry(TRUE, WdBeta, FALSE),
          AssistantEntry(Sonnet45, TRUE, U1), AssistantEntry(Opus41, TRUE, U2),
          AssistantEntry("", TRUE, U1), AssistantEntry(SYNTHETIC, TRUE, U1),
          AssistantEntry(Sonnet45, FALSE, EmptyUsage)}

\* the transcripts a directory holds in SpecCorpus
Transcripts ==
  {<<UserEntry(TRUE, "fix", FALSE)>>,
   <<UserEntry(TRUE, "fix", FALSE), AssistantEntry(Sonnet45, TRUE, U1)>>,
   <<UserEntry(TRUE, "fix", FALSE), AssistantEntry(Opus41, TRUE, U2),
     AssistantEntry("", TRUE, U1)>>,
   <<UserEntry(TRUE, "yes", FALSE), AssistantEntry(Opus5, TRUE, U1),
     AssistantEntry(Sonnet45, TRUE, U1)>>,
   <<UserEntry(TRUE, "fix", FALSE), AssistantEntry(SYNTHETIC, TRUE, U1),
     AssistantEntry(Sonnet45, TRUE, U1)>>,
   <<UserEntry(TRUE, "fix", FALSE), AssistantEntry(Sonnet45, TRUE, U1),
     UserEntry(FALSE, "", FALSE), AssistantEntry(Sonnet45, TRUE, U1)>>,
   <<AssistantEntry(Sonnet45, TRUE, U1), UserEntry(TRUE, "fix", FALSE),
     AssistantEntry(Sonnet45, TRUE, U1), UserEntry(TRUE, "yes", FALSE),
     AssistantEntry(Sonnet45, TRUE, U2)>>,
   <<UserEntry(TRUE, WdAlpha, FALSE), UserEntry(TRUE, WdBeta, FALSE),
     UserEntry(TRUE, WdBeta, FALSE), AssistantEntry(Sonnet45, TRUE, U1)>>,
   <<UserEntry(TRUE, WdAlpha, FALSE), AssistantEntry(Sonnet45, TRUE, U1)>>}

PassInit(readers, files, listings, projects, stamps) ==
  /\ reader \in readers
  /\ remaining \in files
  /\ project \in projects
  /\ stamp \in stamps
  /\ entries = <<>>
  /\ pendingUserMessage = NoPending
  /\ currentModel = GptUnknown
  /\ queries = <<>>
  /\ corpus \in listings
  /\ sessions = <<>>
  /\ allPrompts = <<>>
  /\ dailyMap = <<>>
  /\ modelMap = <<>>
  /\ dynamicPricing = NotLoaded
  /\ fetchAttempted = FALSE
  /\ pricingCache = NotLoaded
  /\ pc = "scan"
  /\ out = NoOut
  /\ out2 = NoOut

\* the loop over the entries of the current transcript visits entry e
ScanEntry(e, limit) ==
  /\ pc = "scan"
  /\ remaining > 0
  /\ Len(entries) < limit
  /\ \E st \in {Step(reader, e,
                      [pending |-> pendingUserMessage, currentModel |-> currentModel,
                       queries |-> queries],
                      stamp, Len(entries) + 1)} :
        /\ pendingUserMessage' = st.pending
        /\ currentModel' = st.currentModel
        /\ queries' = st.queries
  /\ entries' = Append(entries, e)
  /\ UNCHANGED <<reader, remaining, project, stamp, corpus, sessions, allPrompts,
                 dailyMap, modelMap, dynamicPricing, fetchAttempted, pricingCache,
                 pc, out, out2, fanoutVars, jsonlVars, appVars>>

\* the transcript ends: the session is recorded and the next file is opened
EndOfFile(nextProject, nextStamp) ==
  /\ pc = "scan"
  /\ remaining > 0
  /\ \E acc \in {RecordSession(reader,
                    [sessions |-> sessions, allPrompts |-> allPrompts,
                     dailyMap |-> dailyMap, modelMap |-> modelMap],
                    queries, entries, stamp, project, Len(corpus) + 1)} :
        /\ sessions' = acc.sessions
        /\ allPrompts' = acc.allPrompts
        /\ dailyMap' = acc.dailyMap
        /\ modelMap' = acc.modelMap
  /\ corpus' = Append(corpus, [entries |-> entries, stamp |-> stamp, project |-> project])
  /\ remaining' = remaining - 1
  /\ project' = IF remaining > 1 THEN nextProject ELSE project
  /\ stamp' = IF remaining > 1 THEN nextStamp ELSE stamp
  /\ entries' = <<>>
  /\ pendingUserMessage' = NoPending
  /\ currentModel' = GptUnknown
  /\ queries' = <<>>
  /\ UNCHANGED <<reader, dynamicPricing, fetchAttempted, pricingCache, pc, out, out2,
                 fanoutVars, jsonlVars, appVars>>

\* all files were read: parseAllSessions sorts, prices, totals and returns
Finish(web) ==
  /\ pc \in {"scan", "rescan"}
  /\ remaining = 0
  /\ \E r \in {Finalize(RevisionOf(reader),
                         [sessions |-> sessions, allPrompts |-> allPrompts,
                          dailyMap |-> dailyMap, modelMap |-> modelMap],
                         [dynamicPricing |-> dynamicPricing,
                          fetchAttempted |-> fetchAttempted,
                          pricingCache |-> pricingCache],
                         web)} :
        /\ out' = IF pc = "scan" THEN r.out ELSE out
        /\ out2' = IF pc = "scan" THEN out2 ELSE r.out
        /\ dynamicPricing' = r.mod.dynamicPricing
        /\ fetchAttempted' = r.mod.fetchAttempted
        /\ pricingCache' = r.mod.pricingCache
  /\ pc' = IF pc = "scan" THEN "done" ELSE "again"
  /\ UNCHANGED <<reader, remaining, project, stamp, entries, pendingUserMessage,
                 currentModel, queries, corpus, sessions, allPrompts, dailyMap,
                 modelMap, fanoutVars, jsonlVars, appVars>>

\* ---- SpecReader: one transcript of any reader, entry by entry
ReaderInit ==
  PassInit(Readers, {1}, {<<>>}, {"alpha"}, {Null, Stamp1}) /\ FanoutIdle /\ JsonlIdle
    /\ AppIdle
ReaderScan == \E e \in ReaderAlphabet(reader) : ScanEntry(e, MaxEntries)
ReaderEndOfFile == EndOfFile(project, stamp)
ReaderFinish == \E web \in WebOutcomes : Finish(web)
ReaderNext == ReaderScan \/ ReaderEndOfFile \/ ReaderFinish
SpecReader == ReaderInit /\ [][ReaderNext]_vars

\* ---- SpecCorpus: a directory of whole transcripts, parsed twice
\* One iteration of the per-file loop of parseAllSessions: the next file of
\* the directory is read, scanned and recorded.
ReadFile(file, sessionId) ==
  /\ pc \in {"scan", "rescan"}
  /\ remaining > 0
  /\ \E acc \in {RecordSession(reader,
                    [sessions |-> sessions, allPrompts |-> allPrompts,
                     dailyMap |-> dailyMap, modelMap |-> modelMap],
                    ScanFrom(reader, file.entries, file.stamp, 1, StartOfFile).queries,
                    file.entries, file.stamp, file.project, sessionId)} :
        /\ sessions' = acc.sessions
        /\ allPrompts' = acc.allPrompts
        /\ dailyMap' = acc.dailyMap
        /\ modelMap' = acc.modelMap
  /\ remaining' = remaining - 1
  /\ UNCHANGED <<reader, project, stamp, entries, pendingUserMessage, currentModel,
                 queries, corpus, dynamicPricing, fetchAttempted, pricingCache, pc,
                 out, out2, fanoutVars, jsonlVars, appVars>>

\* parseAllSessions is called a second time in the same process: its locals
\* are fresh, the module-level state and the files are what the first pass left
Reparse ==
  /\ pc = "done"
  /\ pc' = "rescan"
  /\ remaining' = Len(corpus)
  /\ sessions' = <<>>
  /\ allPrompts' = <<>>
  /\ dailyMap' = <<>>
  /\ modelMap' = <<>>
  /\ UNCHANGED <<reader, project, stamp, entries, pendingUserMessage, currentModel,
                 queries, corpus, dynamicPricing, fetchAttempted, pricingCache,
                 out, out2, fanoutVars, jsonlVars, appVars>>

\* where a transcript lies and the timestamp its entries carry (Null: none)
Origins ==
  {<<Stamp1, "alpha">>, <<Stamp2, "alpha">>, <<Stamp1, "beta">>, <<Null, "beta">>}

Files ==
  {[entries |-> t, stamp |-> o[1], project |-> o[2]] :
     t \in Transcripts, o \in Origins}

\* the directories: up to MaxFiles transcript files
Listings == UNION {[1..n -> Files] : n \in 0..MaxFiles}

CorpusInit ==
  /\ PassInit(ClaudeVersions, 0..MaxFiles, Listings, {"alpha"}, {Stamp1})
  /\ remaining = Len(corpus)
  /\ FanoutIdle /\ JsonlIdle /\ AppIdle
CorpusRead ==
  ReadFile(corpus[Len(corpus) - remaining + 1], Len(corpus) - remaining + 1)
CorpusFinish == \E web \in WebOutcomes : Finish(web)
CorpusNext == CorpusRead \/ CorpusFinish \/ Reparse
SpecCorpus == CorpusInit /\ [][CorpusNext]_vars

\* no parse pass runs
PassIdle == PassInit({"parser.js:1114"}, {0}, {<<>>}, {"alpha"}, {Null})

\* ---- SpecFanout: the three tool readers under Promise.all
Settled(t) == status[t] \in {"fulfilled", "rejected"}

\* an aggregator that goes on as soon as one reader has settled
AnySettled == \E t \in Tools : Settled(t)

\* Promise.all resolves
AllSettled == \A t \in Tools : Settled(t)

\* .catch(() => []): what a rejected reader contributes
Caught(sessionsSoFar) == <<>>

\* parseXSessions() is called: without its directory it returns [] at once
Call(t, dirExists) ==
  /\ status[t] = "created"
  /\ status' = [status EXCEPT ![t] = IF dirExists THEN "running" ELSE "fulfilled"]
  /\ UNCHANGED <<found, filesSeen, settled, aggregate, passVars, jsonlVars, appVars>>

\* one iteration of the reader's file loop: the file gives a session, or it
\* is skipped (unreadable, empty, without queries)
ReadTranscript(t, givesSession) ==
  /\ status[t] = "running"
  /\ filesSeen[t] < MaxReaderFiles
  /\ filesSeen' = [filesSeen EXCEPT ![t] = @ + 1]
  /\ found' = [found EXCEPT ![t] =
                 IF givesSession
                 THEN Append(@, [source |-> t, file |-> filesSeen[t] + 1])
                 ELSE @]
  /\ UNCHANGED <<status, settled, aggregate, passVars, jsonlVars, appVars>>

\* the reader throws (a directory listing or the history file cannot be
\* read, an entry is not an object): its promise rejects and is caught
Throw(t) ==
  /\ status[t] = "running"
  /\ status' = [status EXCEPT ![t] = "rejected"]
  /\ settled' = [settled EXCEPT ![t] = Caught(found[t])]
  /\ UNCHANGED <<found, filesSeen, aggregate, passVars, jsonlVars, appVars>>

\* return sessions
Return(t) ==
  /\ status[t] = "running"
  /\ status' = [status EXCEPT ![t] = "fulfilled"]
  /\ settled' = [settled EXCEPT ![t] = found[t]]
  /\ UNCHANGED <<found, filesSeen, aggregate, passVars, jsonlVars, appVars>>

\* const sessions = [...claudeSessions, ...geminiSessions, ...codexSessions]
Aggregate ==
  /\ AllSettled
  /\ ~aggregate.built
  /\ aggregate' = [built |-> TRUE,
                   sessions |-> settled["claude"] \o settled["gemini"] \o settled["codex"]]
  /\ UNCHANGED <<status, found, filesSeen, settled, passVars, jsonlVars, appVars>>

FanoutInit == FanoutIdle /\ PassIdle /\ JsonlIdle /\ AppIdle
FanoutCall == \E t \in Tools, dirExists \in BOOLEAN : Call(t, dirExists)
FanoutRead == \E t \in Tools, givesSession \in BOOLEAN : ReadTranscript(t, givesSession)
FanoutThrow == \E t \in Tools : Throw(t)
FanoutReturn == \E t \in Tools : Return(t)
FanoutNext == FanoutCall \/ FanoutRead \/ FanoutThrow \/ FanoutReturn \/ Aggregate
SpecFanout == FanoutInit /\ [][FanoutNext]_vars

\* ---- SpecJSONL: parseJSONLFile line by line, the Gemini loop file by file
\* String.prototype.trim on the lines used here
Trim(line) == IF line \in {"", "   "} THEN "" ELSE line

NoValue == [n |-> Missing]

\* JSON.parse: ok is false where it throws
JSONparse(text) ==
  CASE text = "{\"n\":1}" -> [ok |-> TRUE, value |-> [n |-> 1]]
    [] text = "{\"n\":2}" -> [ok |-> TRUE, value |-> [n |-> 2]]
    [] text = "{}" -> [ok |-> TRUE, value |-> NoValue]
    [] OTHER -> [ok |-> FALSE, value |-> NoValue]

Lines == {"", "   ", "{\"n\":1", "{\"n\":1}", "{\"n\":2}"}

\* a loop body without the try/catch: a malformed line loses the file
JSONLStepAbort(parsed, line, at) ==
  IF Trim(line) = "" THEN parsed
  ELSE IF JSONparse(line).ok
       THEN Append(parsed, [value |-> JSONparse(line).value, at |-> at])
       ELSE <<>>

\* the body of `for await (const line of rl)`; `at` is the line's number
JSONLStep(parsed, line, at) ==
  IF Trim(line) = "" THEN parsed
  ELSE IF JSONparse(line).ok
       THEN Append(parsed, [value |-> JSONparse(line).value, at |-> at])
       ELSE parsed

\* the chat files of a Gemini project and what JSON.parse makes of them
ChatFiles == {"{\"messages\":[", "{}", "{\"messages\":[]}", "{\"messages\":[u,g]}"}

ChatParse(raw) ==
  CASE raw = "{}" -> [ok |-> TRUE, hasMessages |-> FALSE, messages |-> <<>>]
    [] raw = "{\"messages\":[]}" ->
         [ok |-> TRUE, hasMessages |-> TRUE, messages |-> <<>>]
    [] raw = "{\"messages\":[u,g]}" ->
         [ok |-> TRUE, hasMessages |-> TRUE,
          messages |-> <<GeminiUser(TRUE, "fix"),
                         GeminiReply(GeminiPro, TRUE, Tokens(2, 1, 1, 0, 1))>>]
    [] OTHER -> [ok |-> FALSE, hasMessages |-> FALSE, messages |-> <<>>]

\* the body of `for (const file of chatFiles)` in parseGeminiSessions
ChatQueries(messages) ==
  ScanFrom("gemini", messages, Stamp1, 1, StartOfFile).queries

PushChat(pushed, sessionData, qs, at) ==
  IF ~sessionData.ok THEN pushed
  ELSE IF ~sessionData.hasMessages \/ sessionData.messages = <<>> THEN pushed
  ELSE IF qs = <<>> THEN pushed
  ELSE Append(pushed, BuildSession("gemini", qs, at, "alpha", Stamp1))

GeminiFileStep(pushed, raw, at) ==
  PushChat(pushed, ChatParse(raw), ChatQueries(ChatParse(raw).messages), at)

ReadLine(line) ==
  /\ Len(fileLines) < MaxLines
  /\ fileLines' = Append(fileLines, line)
  /\ lines' = JSONLStep(lines, line, Len(fileLines) + 1)
  /\ UNCHANGED <<chatFiles, chatSessions, passVars, fanoutVars, appVars>>

ReadChatFile(raw) ==
  /\ Len(chatFiles) < MaxChatFiles
  /\ chatFiles' = Append(chatFiles, raw)
  /\ chatSessions' = GeminiFileStep(chatSessions, raw, Len(chatFiles) + 1)
  /\ UNCHANGED <<fileLines, lines, passVars, fanoutVars, appVars>>

JsonlInit == JsonlIdle /\ PassIdle /\ FanoutIdle /\ AppIdle
JsonlReadLine == \E line \in Lines : ReadLine(line)
JsonlReadChatFile == \E raw \in ChatFiles : ReadChatFile(raw)
JsonlNext == JsonlReadLine \/ JsonlReadChatFile
SpecJSONL == JsonlInit /\ [][JsonlNext]_vars

\* ------------------------------------------------------ generateInsights
\* A session of the snapshot is the summary of what the rules read of it:
\* first5 and last5 are the totalTokens of queries.slice(0, 5) and
\* queries.slice(-5), userMessages the queries with a userPrompt, firstInput
\* is queries[0].inputTokens, day is new Date(timestamp).getDay() (Missing
\* without a timestamp), saved the cache savings of its queries in 1e-8 USD.
\* A prompt is [length, totalTokens, reworkLoops] (Missing: no costAnalysis).
Emit(cond, id) == IF cond THEN <<id>> ELSE <<>>
Count(seq, P(_)) == Len(SelectSeq(seq, P))
Max(a, b) == IF a >= b THEN a ELSE b
Min(a, b) == IF a <= b THEN a ELSE b

\* Math.round and toFixed(0) of num / den
Round(num, den) == (2 * num + den) \div (2 * den)

\* the fields of grandTotals the rules read
SnapshotTotals(v, ss) ==
  [totalTokens |-> SumOf(ss, LAMBDA x : x.totalTokens),
   totalOutputTokens |-> SumOf(ss, LAMBDA x : x.outputTokens),
   totalCacheReadTokens |-> SumOf(ss, LAMBDA x : x.cacheReadTokens),
   cacheSavingsDollars |-> SumOf(ss, LAMBDA x : x.saved),
   cacheHitRate |-> cacheHitRate(v, SumOf(ss, LAMBDA x : x.freshInputTokens),
                                 SumOf(ss, LAMBDA x : x.cacheWriteTokens),
                                 SumOf(ss, LAMBDA x : x.cacheReadTokens))]

\* 1. short messages that cost a lot
VaguePrompts(prompts) ==
  Emit(Count(prompts, LAMBDA p : p.length < 30 /\ p.totalTokens > 100000) > 0,
       "vague-prompts")

\* 2. long conversations whose last five queries cost over twice the first five
Grows(s) == s.last5 > 2 * Max(s.first5, Min(5, s.queryCount))
ContextGrowth(ss) ==
  Emit(Count(ss, LAMBDA s : s.queryCount > 50 /\ Grows(s)) > 0, "context-growth")

\* 3. marathon conversations
MarathonFrom200(s) == s.queryCount >= 200
MarathonLong(s) == s.queryCount > 200
MarathonSessions(ss) == Emit(Count(ss, MarathonLong) >= 3, "marathon-sessions")

\* 4. output below 2% of all tokens
InputHeavy(totals) ==
  Emit(totals.totalTokens > 0
         /\ totals.totalOutputTokens * 100 < 2 * totals.totalTokens,
       "input-heavy")

\* 5. day-of-week pattern
DayPattern(ss) ==
  Emit(Len(ss) >= 10
         /\ Cardinality({ss[i].day : i \in {j \in 1..Len(ss) : ss[j].day # Missing}}) >= 3,
       "day-pattern")

\* 6. Opus used for simple conversations
ModelMismatch(ss) ==
  Emit(Count(ss, LAMBDA s : /\ HasPart(s.model, "opus")
                            /\ s.queryCount < 10
                            /\ s.totalTokens < 200000) >= 3,
       "model-mismatch")

\* the rule without the gate on the number of sessions
ToolHeavyAnyTotal(ss) ==
  Emit(Count(ss, LAMBDA s : /\ s.userMessages > 0
                            /\ s.queryCount - s.userMessages
                                 > s.userMessages * 3) >= 3,
       "tool-heavy")

\* 7. tool-heavy conversations
ToolHeavy(ss) ==
  Emit(Len(ss) >= 5
         /\ Count(ss, LAMBDA s : /\ s.userMessages > 0
                                 /\ s.queryCount - s.userMessages
                                      > s.userMessages * 3) >= 3,
       "tool-heavy")

\* 8. one project dominates
ProjectTokens(ss, proj) ==
  SumOf(SelectSeq(ss, LAMBDA s : s.project = proj), LAMBDA s : s.totalTokens)
TopTokens(ss) ==
  CHOOSE t \in {ProjectTokens(ss, ss[i].project) : i \in 1..Len(ss)} :
    \A i \in 1..Len(ss) : ProjectTokens(ss, ss[i].project) <= t
ProjectDominance(ss, totals) ==
  Emit(Len(ss) >= 5
         /\ Cardinality({ss[i].project : i \in 1..Len(ss)}) >= 2
         /\ Round(100 * TopTokens(ss), Max(totals.totalTokens, 1)) >= 60,
       "project-dominance")

\* 9. tokens per message of short and of long conversations
PerMessage(s) == s.totalTokens \div s.queryCount
AvgPerMessage(ss) == Round(SumOf(ss, PerMessage), Len(ss))
IsShort(s) == s.queryCount >= 3 /\ s.queryCount <= 15
ConversationEfficiency(ss) ==
  Emit(Len(ss) >= 10
         /\ Count(ss, IsShort) >= 3
         /\ Count(ss, LAMBDA s : s.queryCount > 80) >= 2
         /\ Round(10 * AvgPerMessage(SelectSeq(ss, LAMBDA s : s.queryCount > 80)),
                  Max(AvgPerMessage(SelectSeq(ss, IsShort)), 1)) >= 20,
       "conversation-efficiency")

\* 10. heavy context on the first message
HeavyContext(ss) ==
  Emit(Len(ss) >= 5 /\ Count(ss, LAMBDA s : s.firstInput > 50000) >= 5,
       "heavy-context")

\* cache savings: 0.05 USD is 5000000 in 1e-8 USD
NoCacheBenefit(totals) ==
  /\ totals.totalTokens > 100000
  /\ totals.cacheHitRate.num * 100 < 5 * totals.cacheHitRate.den
CacheInsightBoth(v, totals) ==
  Emit(totals.cacheSavingsDollars > 5000000, "cache-savings")
    \o Emit(NoCacheBenefit(totals), "no-cache")
CacheInsight(v, totals) ==
  CASE v = "parser.js:99" ->
         IF totals.cacheSavingsDollars > 5000000 THEN <<"cache-savings">>
         ELSE Emit(NoCacheBenefit(totals), "no-cache")
    [] v = "part_002:63" -> Emit(totals.totalCacheReadTokens > 0, "cache-savings")
    [] OTHER -> <<>>

\* 11. the same file rewritten within a prompt
HighRework(v, prompts) ==
  IF v = "parser.js:99"
  THEN Emit(Count(prompts, LAMBDA p : p.reworkLoops >= 2) > 5, "high-rework")
  ELSE <<>>

\* 11. more than one CLI
MultiTool(v, ss) ==
  IF v = "parser.js:1114"
  THEN Emit(Cardinality({ss[i].source : i \in 1..Len(ss)}) > 1, "multi-tool")
  ELSE <<>>

generateInsights(v, ss, prompts, totals) ==
  VaguePrompts(prompts) \o ContextGrowth(ss) \o MarathonSessions(ss)
    \o InputHeavy(totals) \o DayPattern(ss) \o ModelMismatch(ss) \o ToolHeavy(ss)
    \o ProjectDominance(ss, totals) \o ConversationEfficiency(ss)
    \o HeavyContext(ss) \o CacheInsight(v, totals) \o HighRework(v, prompts)
    \o MultiTool(v, ss)

\* ---- SpecInsights: a snapshot built session by session, then the rules
SessionSummary(queryCount, totalTokens, outputTokens, ends, userMessages,
               firstInput, cache, model, proj, day, source) ==
  [queryCount |-> queryCount, totalTokens |-> totalTokens,
   outputTokens |-> outputTokens, first5 |-> ends[1], last5 |-> ends[2],
   userMessages |-> userMessages, firstInput |-> firstInput,
   freshInputTokens |-> cache[1], cacheWriteTokens |-> cache[2],
   cacheReadTokens |-> cache[3], saved |-> cache[4],
   model |-> model, project |-> proj, day |-> day, source |-> source]

SessionProfiles ==
  {SessionSummary(201, 402000, 4020, <<5000, 60000>>, 40, 60000,
                  <<387980, 0, 10000, 2700000>>, Sonnet45, "alpha", 1, "claude"),
   SessionSummary(200, 400000, 4000, <<50000, 60000>>, 100, 10000,
                  <<396000, 0, 0, 0>>, Sonnet45, "alpha", 2, "claude"),
   SessionSummary(5, 68000, 5000, <<68000, 68000>>, 1, 60000,
                  <<23000, 0, 40000, 1000000>>, Opus41, "beta", 3, "claude"),
   SessionSummary(3, 3000, 1500, <<3000, 3000>>, 0, 500,
                  <<1500, 0, 0, 0>>, GeminiPro, "gamma", Missing, "gemini")}

\* parser.js:933 analyzePromptQuality: writes are the files of the 'Write File'
\* tool calls of the group in order; every write of a file after its first one
\* is a rework loop
reworkLoops(writes) ==
  Cardinality({i \in 1..Len(writes) : \E j \in 1..(i - 1) : writes[j] = writes[i]})

PromptSummary(length, totalTokens, writes) ==
  [length |-> length, totalTokens |-> totalTokens, writes |-> writes,
   reworkLoops |-> reworkLoops(writes)]

PromptProfiles ==
  {PromptSummary(3, 150000, <<"a.js", "a.js">>),
   PromptSummary(80, 50000, <<"a.js", "b.js", "a.js", "a.js">>)}

\* parser.js:368 a session joins the list, kept in descending totalTokens
PushSession(s) ==
  /\ insights = NoInsights
  /\ Len(snapshot.sessions) < MaxSessions
  /\ snapshot' = [snapshot EXCEPT !.sessions = InsertDesc(@, s)]
  /\ UNCHANGED <<insights, passVars, fanoutVars, jsonlVars, pricingVars, serverVars>>

\* parser.js:499 a prompt group joins allPrompts, in descending totalTokens
PushPrompt(q) ==
  /\ insights = NoInsights
  /\ Len(snapshot.allPrompts) < MaxPrompts
  /\ snapshot' = [snapshot EXCEPT !.allPrompts = InsertDesc(@, q)]
  /\ UNCHANGED <<insights, passVars, fanoutVars, jsonlVars, pricingVars, serverVars>>

\* parser.js:589 generateInsights(sessions, allPrompts, grandTotals)
GenerateInsights(v) ==
  /\ insights = NoInsights
  /\ insights' = [revision |-> v,
                  ids |-> generateInsights(v, snapshot.sessions, snapshot.allPrompts,
                                           SnapshotTotals(v, snapshot.sessions))]
  /\ UNCHANGED <<snapshot, passVars, fanoutVars, jsonlVars, pricingVars, serverVars>>

InsightsInit == AppIdle /\ PassIdle /\ FanoutIdle /\ JsonlIdle
InsightsPushSession == \E s \in SessionProfiles : PushSession(s)
InsightsPushPrompt == \E q \in PromptProfiles : PushPrompt(q)
InsightsGenerate == \E v \in ClaudeVersions : GenerateInsights(v)
InsightsNext == InsightsPushSession \/ InsightsPushPrompt \/ InsightsGenerate
SpecInsights == InsightsInit /\ [][InsightsNext]_vars

\* ---------------------------------------------------------- OTLP export
\* Instruments are named without the prefix of the revision (agent.usage. or
\* claude.spend.).  An attribute set is <<model, project, date>>, Null for a
\* key it does not have.
Attrs(model, proj, date) == <<model, proj, date>>
Measurement(name, attrs, value) == [name |-> name, attrs |-> attrs, value |-> value]

\* otlp.js:147 what the loop over sessions adds and records
SessionMeasurements(s) ==
  <<Measurement("tokens.input", Attrs(s.model, s.project, s.date), s.inputTokens),
    Measurement("tokens.output", Attrs(s.model, s.project, s.date), s.outputTokens),
    Measurement("queries", Attrs(s.model, s.project, s.date), s.queryCount),
    Measurement("sessions", Attrs(Null, s.project, Null), 1),
    Measurement("session.tokens", Attrs(s.model, s.project, s.date), s.totalTokens),
    Measurement("session.queries", Attrs(s.model, s.project, s.date), s.queryCount)>>

\* otlp.js:176 the loop over dailyUsage
DayMeasurements(day) ==
  <<Measurement("daily.tokens.input", Attrs(Null, Null, day.date), day.inputTokens),
    Measurement("daily.tokens.output", Attrs(Null, Null, day.date), day.outputTokens),
    Measurement("daily.sessions", Attrs(Null, Null, day.date), day.sessions)>>

\* otlp.js:196 the loop over modelBreakdown
ModelMeasurements(m) ==
  <<Measurement("model.tokens.input", Attrs(m.model, Null, Null), m.inputTokens),
    Measurement("model.tokens.output", Attrs(m.model, Null, Null), m.outputTokens),
    Measurement("model.queries", Attrs(m.model, Null, Null), m.queryCount)>>

RECURSIVE Flatten(_)
Flatten(ss) == IF ss = <<>> THEN <<>> ELSE Head(ss) \o Flatten(Tail(ss))

\* everything one call of exportMetrics adds, in the order of the code
exportMeasurements(data) ==
  Flatten(MapSeq(data.sessions, SessionMeasurements))
    \o Flatten(MapSeq(data.dailyUsage, DayMeasurements))
    \o Flatten(MapSeq(data.modelBreakdown, ModelMeasurements))

\* The points of a meter: per instrument and attribute set the number and the
\* sum of the values added since the provider was created (Counter.add,
\* UpDownCounter.add, Histogram.record accumulate).
SamePoint(p, m) == p.name = m.name /\ p.attrs = m.attrs
AddPoint(points, m) ==
  IF \E p \in points : SamePoint(p, m)
  THEN {IF SamePoint(p, m) THEN [p EXCEPT !.count = @ + 1, !.sum = @ + m.value]
        ELSE p : p \in points}
  ELSE points \cup {[name |-> m.name, attrs |-> m.attrs, count |-> 1, sum |-> m.value]}

RECURSIVE RecordAll(_, _)
RecordAll(points, ms) ==
  IF ms = <<>> THEN points ELSE RecordAll(AddPoint(points, Head(ms)), Tail(ms))

\* ------------------------------------------------------------ the server
\* the aggregate parseAllSessions returns for a version of the files
ServerSession(model, proj, date, input, output, n) ==
  [model |-> model, project |-> proj, date |-> date, inputTokens |-> input,
   outputTokens |-> output, totalTokens |-> input + output, queryCount |-> n]

ParsedData(version) ==
  IF version = 0
  THEN [sessions |-> <<ServerSession(Sonnet45, "alpha", "2026-01-05", 6, 1, 1)>>,
        dailyUsage |-> <<[date |-> "2026-01-05", inputTokens |-> 6,
                          outputTokens |-> 1, sessions |-> 1]>>,
        modelBreakdown |-> <<[model |-> Sonnet45, inputTokens |-> 6,
                              outputTokens |-> 1, queryCount |-> 1]>>]
  ELSE [sessions |-> <<ServerSession(Sonnet45, "alpha", "2026-01-05", 6, 1, 1),
                       ServerSession(Sonnet45, "alpha", "2026-01-05", 2, 2, 2)>>,
        dailyUsage |-> <<[date |-> "2026-01-05", inputTokens |-> 8,
                          outputTokens |-> 3, sessions |-> 2]>>,
        modelBreakdown |-> <<[model |-> Sonnet45, inputTokens |-> 8,
                              outputTokens |-> 3, queryCount |-> 3]>>]

Enabled(endpoint) ==
  [enabled |-> TRUE, endpoint |-> endpoint, lastExport |-> Null, lastError |-> Null,
   exports |-> 0]

\* otlpStatus.exports++ (on the status { enabled: false } the key is absent
\* and stays without a number)
Increment(n) == IF n = Missing THEN Missing ELSE n + 1

\* part_004:71 after a successful export of the timer or of parseAndExport
Succeeded(st) ==
  [st EXCEPT !.lastExport = "now", !.lastError = Null, !.exports = Increment(@)]
Failed(st) == [st EXCEPT !.lastError = "err"]

\* otlp.js:113 exportMetrics up to its await: the adds on the instruments of
\* the pipeline otel; a provider that was shut down records nothing
Added(m, otel, data) ==
  IF m.pipeline = otel /\ m.live
  THEN [m EXCEPT !.points = RecordAll(@, exportMeasurements(ParsedData(data.version)))]
  ELSE m

\* otlp.js:204 flush(): what forceFlush collects from a live provider
Flushed(m, otel, last) ==
  IF m.pipeline = otel /\ m.live THEN [pipeline |-> otel, points |-> m.points]
  ELSE last

Respond(r, code, error) ==
  [handlers EXCEPT ![r] = [pc |-> "idle", data |-> NoData, response |-> code,
                           error |-> error, otel |-> 0]]
Goto(r, pc2) == [handlers EXCEPT ![r].pc = pc2, ![r].response = 0, ![r].error = Null]

\* otlp.js:113 the invocation awaits exportMetrics(otel, data)
Exporting(r, otel) == [Goto(r, "exporting") EXCEPT ![r].otel = otel]

\* the transcript files change on disk
EditFiles ==
  /\ disk < MaxEdits
  /\ disk' = disk + 1
  /\ UNCHANGED <<started, cachedData, currentOtel, otlpStatus, exportTimer, timers,
                 pipelines, meterProvider, meter, reported, handlers>>

\* parseAllSessions() is called: the pass reads the files as they are
StartPass(r) ==
  /\ handlers[r].pc = "idle"
  /\ started < MaxPasses
  /\ started' = started + 1
  /\ handlers' = [handlers EXCEPT ![r] = [pc |-> "parsing",
                                          data |-> [pass |-> started + 1,
                                                    version |-> disk],
                                          response |-> 0, error |-> Null, otel |-> 0]]
  /\ UNCHANGED <<disk, cachedData, currentOtel, otlpStatus, exportTimer, timers,
                 pipelines, meterProvider, meter, reported>>

\* setInterval returns a handle no live interval has
FreshTimer(live) ==
  CHOOSE n \in 1..(Cardinality(live) + 1) :
    n \notin live /\ \A m \in 1..(n - 1) : m \in live

\* part_004:84 stopPeriodicExport: the interval of exportTimer is cleared
stopPeriodicExport(live, timer) ==
  [timers |-> live \ {timer}, exportTimer |-> 0]

\* a start that sets the new interval without clearing the old one
startWithoutStop(live, timer) ==
  [timers |-> live \cup {FreshTimer(live)}, exportTimer |-> FreshTimer(live)]

\* part_004:64 startPeriodicExport: the old interval is cleared, a new one set
startPeriodicExport(live, timer) ==
  LET stopped == stopPeriodicExport(live, timer).timers
  IN  [timers |-> stopped \cup {FreshTimer(stopped)},
       exportTimer |-> FreshTimer(stopped)]

\* part_004:66 an interval that is set fires
Tick == timers # {} /\ StartPass("timer")

\* part_004:68 the pass of the timer resolved: cache it, then export
TimerParsed ==
  /\ handlers["timer"].pc = "parsing"
  /\ cachedData' = handlers["timer"].data
  /\ meter' = Added(meter, currentOtel, handlers["timer"].data)
  /\ reported' = Flushed(meter', currentOtel, reported)
  /\ handlers' = IF currentOtel # 0 THEN Exporting("timer", currentOtel)
                 ELSE Respond("timer", 0, Null)
  /\ UNCHANGED <<disk, started, currentOtel, otlpStatus, exportTimer, timers,
                 pipelines, meterProvider>>

\* part_004:71 exportMetrics resolved, part_004:75 or it rejected
TimerExported(ok) ==
  /\ handlers["timer"].pc = "exporting"
  /\ otlpStatus' = IF ok THEN Succeeded(otlpStatus)
                   ELSE IF otlpStatus.enabled THEN Failed(otlpStatus)
                   ELSE otlpStatus
  /\ handlers' = Respond("timer", 0, Null)
  /\ UNCHANGED <<disk, started, cachedData, currentOtel, exportTimer, timers,
                 pipelines, meterProvider, meter, reported>>

\* part_004:121 GET /api/refresh, part_004:110 GET /api/data on an empty cache
RefreshRequest == StartPass("refresh")

DataRequest ==
  IF cachedData = NoData THEN StartPass("data")
  ELSE /\ handlers["data"].pc = "idle"
       /\ handlers' = Respond("data", 200, Null)
       /\ UNCHANGED <<disk, started, cachedData, currentOtel, otlpStatus,
                      exportTimer, timers, pipelines, meterProvider, meter, reported>>

\* part_004:95 parseAndExport after its pass resolved: export when a pipeline
\* is set, otherwise return the data, which the route caches and serves
Parsed(r) ==
  /\ handlers[r].pc = "parsing"
  /\ meter' = Added(meter, currentOtel, handlers[r].data)
  /\ reported' = Flushed(meter', currentOtel, reported)
  /\ cachedData' = IF currentOtel # 0 THEN cachedData ELSE handlers[r].data
  /\ handlers' = IF currentOtel # 0 THEN Exporting(r, currentOtel)
                 ELSE Respond(r, 200, Null)
  /\ UNCHANGED <<disk, started, currentOtel, otlpStatus, exportTimer, timers,
                 pipelines, meterProvider>>

\* part_004:99 the export of parseAndExport resolved or rejected; the route
\* caches what parseAndExport returns
Exported(r, ok) ==
  /\ handlers[r].pc = "exporting"
  /\ otlpStatus' = IF ok THEN Succeeded(otlpStatus) ELSE Failed(otlpStatus)
  /\ cachedData' = handlers[r].data
  /\ handlers' = Respond(r, 200, Null)
  /\ UNCHANGED <<disk, started, currentOtel, exportTimer, timers, pipelines,
                 meterProvider, meter, reported>>

\* part_004:132 POST /api/otlp/connect up to the await of testEndpoint
ConnectRequest(valid) ==
  /\ handlers["connect"].pc = "idle"
  /\ pipelines < MaxPipelines
  /\ handlers' = IF valid THEN Goto("connect", "testing")
                 ELSE Respond("connect", 400, "required")
  /\ UNCHANGED <<disk, started, cachedData, currentOtel, otlpStatus, exportTimer,
                 timers, pipelines, meterProvider, meter, reported>>

\* a connect that shuts the provider down before the test has answered
ConnectTestFailedAfterShutdown ==
  /\ handlers["connect"].pc = "testing"
  /\ handlers' = Respond("connect", 400, "unreachable")
  /\ meter' = [meter EXCEPT !.live = FALSE]
  /\ UNCHANGED <<disk, started, cachedData, currentOtel, otlpStatus, exportTimer,
                 timers, pipelines, meterProvider, reported>>

\* part_004:146 testEndpoint rejected: respond 400
ConnectTestFailed ==
  /\ handlers["connect"].pc = "testing"
  /\ handlers' = Respond("connect", 400, "unreachable")
  /\ UNCHANGED <<disk, started, cachedData, currentOtel, otlpStatus, exportTimer,
                 timers, pipelines, meterProvider, meter, reported>>

\* otlp.js:210 shutdownOTLP up to its await, with a provider set: the
\* provider starts to shut down
ShutdownCalled(r) ==
  /\ meterProvider # 0
  /\ meter' = [meter EXCEPT !.live = FALSE]
  /\ handlers' = Goto(r, "shutdown")

\* otlp.js:88 initOTLP rebinds meterProvider: the providers that were
\* created and not shut down, other than the new one
Unreferenced(m) == m.others \cup (IF m.live THEN {m.pipeline} ELSE {})

\* part_004:156 after shutdownOTLP: a new pipeline and status; with cached
\* data an export, otherwise the timer starts and the route responds
ConnectInit ==
  /\ pipelines' = pipelines + 1
  /\ meterProvider' = pipelines + 1
  /\ currentOtel' = pipelines + 1
  /\ otlpStatus' = Enabled("ui")
  /\ meter' = Added([pipeline |-> pipelines + 1, live |-> TRUE, points |-> {},
                     others |-> Unreferenced(meter)],
                    IF cachedData # NoData THEN pipelines + 1 ELSE 0, cachedData)
  /\ reported' = IF cachedData # NoData
                 THEN Flushed(meter', pipelines + 1, reported) ELSE reported
  /\ handlers' = IF cachedData # NoData THEN Exporting("connect", pipelines + 1)
                 ELSE Respond("connect", 200, Null)
  /\ exportTimer' = IF cachedData # NoData THEN exportTimer
                    ELSE startPeriodicExport(timers, exportTimer).exportTimer
  /\ timers' = IF cachedData # NoData THEN timers
               ELSE startPeriodicExport(timers, exportTimer).timers
  /\ UNCHANGED <<disk, started, cachedData>>

\* part_004:144 testEndpoint resolved, part_004:153 await shutdownOTLP():
\* with a provider the route waits for its shutdown; without one nothing is
\* awaited but a resolved promise, and the route goes on in the same turn
ConnectTestPassed ==
  /\ handlers["connect"].pc = "testing"
  /\ IF meterProvider # 0
     THEN /\ ShutdownCalled("connect")
          /\ UNCHANGED <<disk, started, cachedData, currentOtel, otlpStatus,
                         exportTimer, timers, pipelines, meterProvider, reported>>
     ELSE ConnectInit

\* otlp.js:213 the shutdown settled: meterProvider = null, then part_004:156
ConnectShutdown ==
  /\ handlers["connect"].pc = "shutdown"
  /\ ConnectInit

\* part_004:171 the initial export resolved or rejected, then the timer starts
ConnectExported(ok) ==
  /\ handlers["connect"].pc = "exporting"
  /\ otlpStatus' = IF ok THEN [otlpStatus EXCEPT !.lastExport = "now",
                                                 !.exports = Increment(@)]
                   ELSE Failed(otlpStatus)
  /\ exportTimer' = startPeriodicExport(timers, exportTimer).exportTimer
  /\ timers' = startPeriodicExport(timers, exportTimer).timers
  /\ handlers' = Respond("connect", 200, Null)
  /\ UNCHANGED <<disk, started, cachedData, currentOtel, pipelines, meterProvider,
                 meter, reported>>

\* part_004:193 after shutdownOTLP: no pipeline, the status { enabled: false }
Disconnected ==
  /\ currentOtel' = 0
  /\ otlpStatus' = Disabled
  /\ handlers' = Respond("disconnect", 200, Null)

\* part_004:189 POST /api/otlp/disconnect: the timer stops; with a provider
\* the route waits for its shutdown, without one it goes on in the same turn
DisconnectRequest ==
  /\ handlers["disconnect"].pc = "idle"
  /\ exportTimer' = stopPeriodicExport(timers, exportTimer).exportTimer
  /\ timers' = stopPeriodicExport(timers, exportTimer).timers
  /\ IF meterProvider # 0
     THEN /\ ShutdownCalled("disconnect")
          /\ UNCHANGED <<currentOtel, otlpStatus>>
     ELSE Disconnected /\ UNCHANGED meter
  /\ UNCHANGED <<disk, started, cachedData, pipelines, meterProvider, reported>>

\* otlp.js:213 the shutdown settled: meterProvider = null, then part_004:193
DisconnectShutdown ==
  /\ handlers["disconnect"].pc = "shutdown"
  /\ meterProvider' = 0
  /\ Disconnected
  /\ UNCHANGED <<disk, started, cachedData, exportTimer, timers, pipelines, meter,
                 reported>>

\* ---- SpecServer: the routes and the timer of createServer, interleaved at
\* their awaits; the server starts without a pipeline or with the one of the
\* command line
ServerWithPipeline ==
  /\ WatchIdle
  /\ disk = 0 /\ started = 0 /\ cachedData = NoData
  /\ currentOtel = 1 /\ otlpStatus = Enabled("cli") /\ exportTimer = 1
  /\ timers = {1} /\ pipelines = 1
  /\ meterProvider = 1
  /\ meter = [pipeline |-> 1, live |-> TRUE, points |-> {}, others |-> {}]
  /\ reported = NoReport
  /\ handlers = [r \in Routes |-> Idle]

ServerInit ==
  /\ ServerIdle \/ ServerWithPipeline
  /\ PricingIdle /\ InsightsIdle /\ PassIdle /\ FanoutIdle /\ JsonlIdle

Rest == <<passVars, fanoutVars, jsonlVars, pricingVars, insightVars>>
Others == <<Rest, watchVars>>
ServerEdit == EditFiles /\ UNCHANGED Others
ServerTick == Tick /\ UNCHANGED Others
ServerTimerParsed == TimerParsed /\ UNCHANGED Others
ServerTimerExported == (\E ok \in BOOLEAN : TimerExported(ok)) /\ UNCHANGED Others
ServerRefresh == RefreshRequest /\ UNCHANGED Others
ServerData == DataRequest /\ UNCHANGED Others
ServerParsed == (\E r \in {"data", "refresh"} : Parsed(r)) /\ UNCHANGED Others
ServerExported ==
  (\E r \in {"data", "refresh"} : \E ok \in BOOLEAN : Exported(r, ok))
    /\ UNCHANGED Others
ServerConnect == (\E valid \in BOOLEAN : ConnectRequest(valid)) /\ UNCHANGED Others
ServerConnectFailed == ConnectTestFailed /\ UNCHANGED Others
ServerConnectPassed == ConnectTestPassed /\ UNCHANGED Others
ServerConnectShutdown == ConnectShutdown /\ UNCHANGED Others
ServerConnectExported ==
  (\E ok \in BOOLEAN : ConnectExported(ok)) /\ UNCHANGED Others
ServerDisconnect == DisconnectRequest /\ UNCHANGED Others
ServerDisconnectShutdown == DisconnectShutdown /\ UNCHANGED Others
ServerNext ==
  \/ ServerEdit \/ ServerTick \/ ServerTimerParsed \/ ServerTimerExported
  \/ ServerRefresh \/ ServerData \/ ServerParsed \/ ServerExported
  \/ ServerConnect \/ ServerConnectFailed \/ ServerConnectPassed
  \/ ServerConnectShutdown \/ ServerConnectExported
  \/ ServerDisconnect \/ ServerDisconnectShutdown
SpecServer == ServerInit /\ [][ServerNext]_vars

\* ---- SpecWatch: createServer of server.js: the data and refresh routes,
\* the event stream and the watcher of the projects directory, interleaved
\* at their awaits
\* server.js:57 the files change and fs.watch calls the listener: the
\* pending timeout is cleared and a new one is set
WatchEvent ==
  /\ disk < MaxEdits
  /\ disk' = disk + 1
  /\ debounceTimer' = 1
  /\ UNCHANGED <<started, cachedData, handlers, invalidated, sseClients>>

\* server.js:59 the timeout fires: the cache is invalidated and every open
\* event stream is written an update
Debounced ==
  /\ debounceTimer = 1
  /\ debounceTimer' = 0
  /\ cachedData' = NoData
  /\ invalidated' = [pass |-> started, version |-> disk]
  /\ UNCHANGED <<disk, started, handlers, sseClients>>

\* server.js:37 GET /api/events: the response joins sseClients
EventsRequest ==
  /\ sseClients < MaxClients
  /\ sseClients' = sseClients + 1
  /\ UNCHANGED <<disk, started, cachedData, handlers, debounceTimer, invalidated>>

\* server.js:47 the request closes: the response leaves sseClients
EventsClosed ==
  /\ sseClients > 0
  /\ sseClients' = sseClients - 1
  /\ UNCHANGED <<disk, started, cachedData, handlers, debounceTimer, invalidated>>

\* what a route has sent: the cached aggregate
Served(r, data) ==
  [handlers EXCEPT ![r] = [pc |-> "idle", data |-> data, response |-> 200,
                           error |-> Null, otel |-> 0]]

\* server.js:15 GET /api/data: the cached aggregate is sent, or a pass starts
WatchDataRequest ==
  /\ handlers["data"].pc = "idle"
  /\ IF cachedData # NoData
     THEN handlers' = Served("data", cachedData) /\ UNCHANGED started
     ELSE /\ started < MaxPasses
          /\ started' = started + 1
          /\ handlers' = [handlers EXCEPT !["data"] =
                            [pc |-> "parsing",
                             data |-> [pass |-> started + 1, version |-> disk],
                             response |-> 0, error |-> Null, otel |-> 0]]
  /\ UNCHANGED <<disk, cachedData, debounceTimer, invalidated, sseClients>>

\* server.js:26 GET /api/refresh up to the await of parseAllSessions
WatchRefreshRequest ==
  /\ handlers["refresh"].pc = "idle"
  /\ started < MaxPasses
  /\ started' = started + 1
  /\ handlers' = [handlers EXCEPT !["refresh"] =
                    [pc |-> "parsing",
                     data |-> [pass |-> started + 1, version |-> disk],
                     response |-> 0, error |-> Null, otel |-> 0]]
  /\ UNCHANGED <<disk, cachedData, debounceTimer, invalidated, sseClients>>

\* server.js:18, server.js:29 the pass of the route resolved: it is cached
\* and the route responds
WatchParsed(r) ==
  /\ handlers[r].pc = "parsing"
  /\ cachedData' = handlers[r].data
  /\ handlers' = Served(r, handlers[r].data)
  /\ UNCHANGED <<disk, started, debounceTimer, invalidated, sseClients>>

\* server.js:21, server.js:31 the pass rejected: the route responds 500
WatchFailed(r) ==
  /\ handlers[r].pc = "parsing"
  /\ handlers' = Respond(r, 500, "parse")
  /\ UNCHANGED <<disk, started, cachedData, debounceTimer, invalidated, sseClients>>

WatchInit ==
  /\ ServerIdle
  /\ PricingIdle /\ InsightsIdle /\ PassIdle /\ FanoutIdle /\ JsonlIdle

WatchRest == <<Rest, otlpVars>>
WatchFiles == WatchEvent /\ UNCHANGED WatchRest
WatchTimeout == Debounced /\ UNCHANGED WatchRest
WatchEvents == EventsRequest /\ UNCHANGED WatchRest
WatchClosed == EventsClosed /\ UNCHANGED WatchRest
WatchData == WatchDataRequest /\ UNCHANGED WatchRest
WatchRefresh == WatchRefreshRequest /\ UNCHANGED WatchRest
WatchResolved == (\E r \in {"data", "refresh"} : WatchParsed(r)) /\ UNCHANGED WatchRest
WatchRejected == (\E r \in {"data", "refresh"} : WatchFailed(r)) /\ UNCHANGED WatchRest
WatchNext ==
  \/ WatchFiles \/ WatchTimeout \/ WatchEvents \/ WatchClosed
  \/ WatchData \/ WatchRefresh \/ WatchResolved \/ WatchRejected
SpecWatch == WatchInit /\ [][WatchNext]_vars

\* ---- SpecOperations: the same server when the connect and disconnect
\* operations come one after the other: a connect or disconnect request is
\* served only when the other route has responded; the timer and the data
\* routes still interleave with them
OperationsConnect == handlers["disconnect"].pc = "idle" /\ ServerConnect
OperationsDisconnect == handlers["connect"].pc = "idle" /\ ServerDisconnect
OperationsNext ==
  \/ ServerEdit \/ ServerTick \/ ServerTimerParsed \/ ServerTimerExported
  \/ ServerRefresh \/ ServerData \/ ServerParsed \/ ServerExported
  \/ OperationsConnect \/ ServerConnectFailed \/ ServerConnectPassed
  \/ ServerConnectShutdown \/ ServerConnectExported
  \/ OperationsDisconnect \/ ServerDisconnectShutdown
SpecOperations == ServerInit /\ [][OperationsNext]_vars

\* ---- SpecPricing: one cost computation of any revision, for any model id;
\* quote = NoQuote until the computation has run
ModelIds ==
  {Sonnet45, Opus41, Opus5, Haiku35, Haiku5, GeminiPro, Gpt5, UNKNOWN, ""}

TokenCounts == 0..MaxTokens
DynamicTables == {EmptyTable, WebTable}

Quote(v, model, dyn, p, fresh, cw, cr, output, cost) ==
  [revision |-> v, model |-> model, dyn |-> dyn, rates |-> p,
   tokens |-> fresh + cw + cr + output, cost |-> cost]

\* parser.js:140 cost of one query through estimateCost
EstimateCost(model, fresh, cw, cr, output) ==
  /\ quote = NoQuote
  /\ quote' = Quote("parser.js:99", model, EmptyTable, getPricingList(model),
                    fresh, cw, cr, output,
                    estimateCost(model, fresh, cw, cr, output))
  /\ UNCHANGED <<passVars, fanoutVars, jsonlVars, insightVars, serverVars>>

\* part_002:90 cost of one query at the rates of getPricing
QueryCost(model, fresh, cw, cr, output) ==
  /\ quote = NoQuote
  /\ quote' = Quote("part_002:63", model, EmptyTable, getPricingIncludes(model),
                    fresh, cw, cr, output,
                    Charge(getPricingIncludes(model), fresh, cw, cr, output))
  /\ UNCHANGED <<passVars, fanoutVars, jsonlVars, insightVars, serverVars>>

\* part_002:1189 cost of one model bucket through computeCost
ComputeCost(model, dyn, fresh, cw, cr, output) ==
  /\ quote = NoQuote
  /\ quote' = Quote("part_002:688", model, dyn, getPricingDynamic(model, dyn),
                    fresh, cw, cr, output,
                    computeCost(model, dyn, fresh, cw, cr, output).withCache)
  /\ UNCHANGED <<passVars, fanoutVars, jsonlVars, insightVars, serverVars>>

PricingInit == AppIdle /\ PassIdle /\ FanoutIdle /\ JsonlIdle
PricingEstimate ==
  \E model \in ModelIds : \E a, b, c, d \in TokenCounts :
     EstimateCost(model, a, b, c, d)
PricingQuery ==
  \E model \in ModelIds : \E a, b, c, d \in TokenCounts :
     QueryCost(model, a, b, c, d)
PricingCompute ==
  \E model \in ModelIds : \E dyn \in DynamicTables : \E a, b, c, d \in TokenCounts :
     ComputeCost(model, dyn, a, b, c, d)
PricingNext == PricingEstimate \/ PricingQuery \/ PricingCompute
SpecPricing == PricingInit /\ [][PricingNext]_vars

\* =================================================================== claims
\* the tokens of a usage record, missing counters counted as 0
RecordTokens(e) ==
  IF e.hasUsage
  THEN Num(e.usage.input_tokens) + Num(e.usage.cache_creation_input_tokens)
         + Num(e.usage.cache_read_input_tokens) + Num(e.usage.output_tokens)
  ELSE 0

RecordInput(e) ==
  IF e.hasUsage
  THEN Num(e.usage.input_tokens) + Num(e.usage.cache_creation_input_tokens)
         + Num(e.usage.cache_read_input_tokens)
  ELSE 0

SessionById(ss, id) == ss[CHOOSE k \in 1..Len(ss) : ss[k].sessionId = id]

\* C1: every Query emitted by any reader has totalTokens = inputTokens +
\* outputTokens, and a Claude Query has inputTokens = fresh + cache-write +
\* cache-read tokens of its usage record (missing counters counted as 0).
C1_QueryTotals ==
  \A i \in 1..Len(queries) :
    LET q == queries[i]
    IN /\ q.totalTokens = q.inputTokens + q.outputTokens
       /\ reader \in ClaudeVersions => q.inputTokens = RecordInput(entries[q.line])

\* C2: a Session's totalTokens is the sum of totalTokens over its queries and
\* its queryCount is the length of its query list.
C2_SessionTotals ==
  \A k \in 1..Len(sessions) :
    LET session == sessions[k]
    IN /\ session.totalTokens = SumOf(session.queries, LAMBDA q : q.totalTokens)
       /\ session.queryCount = Len(session.queries)

\* a session of several queries with cache tokens was built by the revision
\* that keeps cache tokens out of inputTokens
C2_Witness ==
  \E k \in 1..Len(sessions) :
    /\ reader = "part_002:63"
    /\ sessions[k].queryCount >= 2
    /\ sessions[k].cacheReadTokens > 0
    /\ sessions[k].totalTokens > sessions[k].inputTokens + sessions[k].outputTokens

\* the sum of totalTokens of the queries of the group's session that the
\* group absorbed
MembersTotal(g, ss) ==
  LET qs == SessionById(ss, g.sessionId).queries
  IN SumOf(g.members, LAMBDA i : qs[i].totalTokens)

\* C3: every PromptGroup of the global prompt list and of every per-project
\* prompt list has totalTokens equal to the sum of totalTokens of exactly the
\* queries folded into it.
C3_GroupTotals ==
  pc = "done" =>
    /\ \A k \in 1..Len(out.allPrompts) :
         out.allPrompts[k].totalTokens = MembersTotal(out.allPrompts[k], out.sessions)
    /\ \A p \in 1..Len(out.projectBreakdown) :
         \A k \in 1..Len(out.projectBreakdown[p].topPrompts) :
            LET g == out.projectBreakdown[p].topPrompts[k]
            IN g.totalTokens = MembersTotal(g, out.sessions)

\* ---- C4: what a forward pass is claimed to emit, stated over the entries
\* the pass has visited
IsUser(r, e) ==
  IF r = "codex" THEN e.type = "response_item" /\ e.role = "user"
  ELSE e.type = "user"

NotFiltered(r, e) == r \in ClaudeVersions => ~isFiltered(e)

\* a record that carries token usage
IsUsageRecord(r, e) ==
  CASE r = "gemini" -> e.type = "gemini" /\ e.hasTokens
    [] r = "codex" -> e.type = "token_count" /\ e.hasUsage
    [] OTHER -> e.type = "assistant" /\ e.hasUsage

QueryAt(j) == {i \in 1..Len(queries) : queries[i].line = j}

IsKept(r, e) ==
  IF r \in ClaudeVersions
  THEN /\ e.type = "assistant"
       /\ (e.hasUsage \/ r = "parser.js:99")
       /\ e.model # SYNTHETIC
  ELSE IsUsageRecord(r, e)

\* the user entries that replace the remembered prompt
IsPrompt(r, e) ==
  /\ IsUser(r, e)
  /\ NotFiltered(r, e)
  /\ r = "codex" => e.text # ""

\* the text a reader extracts from a user entry, null when it is empty
PromptText(r, e) ==
  IF r \in {"parser.js:1114", "gemini"} /\ ~e.isString
  THEN JSONstringify(e)
  ELSE IF e.text = "" THEN Null ELSE e.text

RecordsOf(k, ms) ==
  {j \in 1..Len(corpus[k].entries) :
     LET e == corpus[k].entries[j]
     IN e.type = "assistant" /\ e.hasUsage /\ OrElse(e.model, UNKNOWN) \in ms}

\* record j of file k is counted in the totals of the file's session
CountedInSession(k, j) ==
  \E n \in 1..Len(out.sessions) :
    /\ out.sessions[n].sessionId = k
    /\ \E i \in 1..Len(out.sessions[n].queries) :
         /\ out.sessions[n].queries[i].line = j
         /\ out.sessions[n].queries[i].totalTokens
              = RecordTokens(corpus[k].entries[j])

NoSentinelBucket ==
  /\ \A m \in 1..Len(out.modelBreakdown) :
       out.modelBreakdown[m].model \notin {UNKNOWN, SYNTHETIC}
  /\ \A p \in 1..Len(out.projectBreakdown) :
       \A m \in 1..Len(out.projectBreakdown[p].modelBreakdown) :
          out.projectBreakdown[p].modelBreakdown[m].model \notin {UNKNOWN, SYNTHETIC}

\* every total is the sum of what it is made of
TotalsAddUp ==
  /\ \A n \in 1..Len(out.sessions) :
       out.sessions[n].totalTokens
         = SumOf(out.sessions[n].queries, LAMBDA q : q.totalTokens)
  /\ \A d \in 1..Len(out.dailyUsage) :
       out.dailyUsage[d].totalTokens
         = SumOf(out.sessions,
                 LAMBDA x : IF x.date = out.dailyUsage[d].date
                            THEN x.totalTokens ELSE 0)
  /\ \A n \in 1..Len(out.sessions) :
       out.sessions[n].date # "unknown" =>
         \E d \in 1..Len(out.dailyUsage) :
            out.dailyUsage[d].date = out.sessions[n].date
  /\ out.sessions # <<>> =>
       out.totals.totalTokens = SumOf(out.sessions, LAMBDA x : x.totalTokens)

TokensOf(ms) ==
  SumOf(corpus,
        LAMBDA file :
          SumOf(file.entries,
                LAMBDA e : IF e.type = "assistant" /\ e.hasUsage
                              /\ OrElse(e.model, UNKNOWN) \in ms
                           THEN RecordTokens(e) ELSE 0))

RealModels == {Sonnet45, Opus41, Opus5, Haiku35}

C6_SecondPassIdentical == pc = "again" => out2 = out

\* the pricing of the revision for a model
RevisionPricing(v, model) ==
  IF v = "parser.js:99" THEN getPricingList(model) ELSE getPricingIncludes(model)

\* withoutCache - withCache of one query at the four rates of its model
SavingAt(p, q) ==
  ((q.freshInputTokens + q.cacheWriteTokens + q.cacheReadTokens) * p.input
     + q.outputTokens * p.output)
    - (q.freshInputTokens * p.input + q.cacheWriteTokens * p.cacheWrite
         + q.cacheReadTokens * p.cacheRead + q.outputTokens * p.output)

ClaimedSaving(v, q) == SavingAt(RevisionPricing(v, q.model), q)

\* C9: the reported cache savings is the sum over all queries of
\* withoutCache - withCache at the query model's rates.
C9_SavingsIsSumOfDifferences ==
  (pc = "done" /\ HasCacheTotals(reader)) =>
    out.totals.cacheSavings
      = SumOf(out.sessions,
              LAMBDA x : SumOf(x.queries, LAMBDA q : ClaimedSaving(reader, q)))

\* C10: cacheHitRate is the total of cache-read tokens divided by the total
\* of fresh + cache-write + cache-read tokens, and 0 when that total is 0.
C10_HitRateOverAllInput ==
  (pc = "done" /\ HasCacheTotals(reader)) =>
    LET fresh == SumOf(out.sessions, LAMBDA x : x.freshInputTokens)
        cw == SumOf(out.sessions, LAMBDA x : x.cacheWriteTokens)
        cr == SumOf(out.sessions, LAMBDA x : x.cacheReadTokens)
        rate == out.totals.cacheHitRate
    IN IF fresh + cw + cr = 0 THEN rate.num = 0
       ELSE rate.num * (fresh + cw + cr) = cr * rate.den

\* C7: a tool reader that fails contributes an empty session list, the
\* sessions of the readers that returned are all in the aggregate, and the
\* aggregate is built only after all three readers have completed.
C7_FailedReaderIsolated ==
  aggregate.built =>
    /\ \A t \in Tools : status[t] \in {"fulfilled", "rejected"}
    /\ \A t \in Tools :
         status[t] = "rejected" =>
           \A n \in 1..Len(aggregate.sessions) : aggregate.sessions[n].source # t
    /\ \A t \in Tools :
         status[t] = "fulfilled" =>
           \A k \in 1..Len(found[t]) :
              \E n \in 1..Len(aggregate.sessions) : aggregate.sessions[n] = found[t][k]

\* one reader threw after it had pushed a session, one had no directory,
\* one returned its sessions, and the aggregate was built
C7_Witness ==
  /\ aggregate.built
  /\ \E t \in Tools : status[t] = "rejected" /\ found[t] # <<>>
  /\ \E t \in Tools : status[t] = "fulfilled" /\ filesSeen[t] = 0
  /\ \E t \in Tools : status[t] = "fulfilled" /\ Len(found[t]) = 2
  /\ Len(aggregate.sessions) = 2

\* the chat file can be turned into a session
GoodChat(raw) ==
  ChatParse(raw).ok /\ ChatParse(raw).hasMessages /\ ChatParse(raw).messages # <<>>

\* C8: parseJSONLFile skips a line that is not valid JSON and returns every
\* other non-blank line parsed, in file order; a chat file that fails to
\* parse is skipped and the files around it still give their sessions.
C8_BadLineSkippedOnly ==
  /\ \A i \in 1..Len(fileLines) :
       Cardinality({k \in 1..Len(lines) : lines[k].at = i})
         = IF Trim(fileLines[i]) # "" /\ JSONparse(fileLines[i]).ok THEN 1 ELSE 0
  /\ \A k \in 1..Len(lines) :
       /\ lines[k].at \in 1..Len(fileLines)
       /\ lines[k].value = JSONparse(fileLines[lines[k].at]).value
       /\ \A m \in 1..(k - 1) : lines[m].at < lines[k].at
  /\ \A i \in 1..Len(chatFiles) :
       Cardinality({k \in 1..Len(chatSessions) : chatSessions[k].sessionId = i})
         = IF GoodChat(chatFiles[i]) THEN 1 ELSE 0
  /\ \A k \in 1..Len(chatSessions) :
       \A m \in 1..(k - 1) : chatSessions[m].sessionId < chatSessions[k].sessionId

\* an invalid line stood between two valid ones and an unparsable chat file
\* before a good one
C8_Witness ==
  /\ Len(fileLines) = 3
  /\ JSONparse(fileLines[1]).ok /\ Trim(fileLines[2]) # ""
  /\ ~JSONparse(fileLines[2]).ok /\ JSONparse(fileLines[3]).ok
  /\ Len(lines) = 2
  /\ Len(chatFiles) = 2
  /\ ~ChatParse(chatFiles[1]).ok /\ GoodChat(chatFiles[2])
  /\ Len(chatSessions) = 1


\* ---- C11: pricing of ids that match no version tier
\* the rate tuples the tables list for a family, rows of the dynamic table
\* included
FamilyTiers(f, dyn) ==
  (CASE f = "opus" -> {OpusRates, Opus45Rates}
     [] f = "sonnet" -> {SonnetRates}
     [] OTHER -> {Haiku3Rates, Haiku35Rates, Haiku45Rates})
    \cup {row.rates : row \in {r \in dyn : r.key # NoKey /\ r.key[1] = f}}

\* C11: for every model-id string pricing resolution returns rates of the
\* family the id names (the global default when it names none), and the cost
\* of a query with at least one token is strictly positive.
C11_FamilyFallback ==
  quote # NoQuote =>
    /\ \A f \in Families :
         HasPart(quote.model, f) => quote.rates \in FamilyTiers(f, quote.dyn)
    /\ (\A f \in Families : ~HasPart(quote.model, f)) => quote.rates = SonnetRates
    /\ quote.tokens > 0 => quote.cost > 0

\* ---- C12, C13: the insights of a snapshot
\* the place of an id in the order the claim lists, 0 for an id it does not list
ClaimedSlot(id) ==
  CASE id = "vague-prompts" -> 1
    [] id = "context-growth" -> 2
    [] id = "marathon-sessions" -> 3
    [] id = "input-heavy" -> 4
    [] id = "day-pattern" -> 5
    [] id = "model-mismatch" -> 6
    [] id = "tool-heavy" -> 7
    [] id = "project-dominance" -> 8
    [] id = "conversation-efficiency" -> 9
    [] id = "heavy-context" -> 10
    [] id \in {"cache-savings", "no-cache"} -> 11
    [] id = "high-rework" -> 12
    [] OTHER -> 0

\* the same order with the multi-tool rule of the multi-tool revision last
Slot(id) == IF id = "multi-tool" THEN 13 ELSE ClaimedSlot(id)

\* C12 as stated: every insight returned is one of the twelve listed rules'
\* and the list is in the listed order, each rule at most once, cache-savings
\* and no-cache never both.
C12_ListedOrder ==
  insights # NoInsights =>
    /\ \A i \in 1..Len(insights.ids) : ClaimedSlot(insights.ids[i]) > 0
    /\ \A i, j \in 1..Len(insights.ids) :
         i < j => ClaimedSlot(insights.ids[i]) < ClaimedSlot(insights.ids[j])

\* C12 amended: the list is in the registry order vague-prompts ..
\* heavy-context, cache-savings or no-cache, high-rework, multi-tool; each
\* rule contributes at most one insight and cache-savings and no-cache never
\* appear together.
C12_RegistryOrder ==
  insights # NoInsights =>
    /\ \A i \in 1..Len(insights.ids) : Slot(insights.ids[i]) > 0
    /\ \A i, j \in 1..Len(insights.ids) :
         i < j => Slot(insights.ids[i]) < Slot(insights.ids[j])

Ids == IF insights = NoInsights THEN {}
       ELSE {insights.ids[i] : i \in 1..Len(insights.ids)}

\* a snapshot of several tools for which eight rules fired, multi-tool last
C12_Witness ==
  /\ Len(snapshot.sessions) = MaxSessions
  /\ Cardinality(Ids) >= 8
  /\ {"vague-prompts", "marathon-sessions", "heavy-context", "multi-tool"}
       \subseteq Ids

\* C13: the marathon-sessions insight is emitted if and only if at least
\* three sessions have more than 200 queries; a session of exactly 200
\* queries does not count, one of 201 does.
C13_MarathonThreshold ==
  insights # NoInsights =>
    ("marathon-sessions" \in Ids
       <=> Cardinality({i \in 1..Len(snapshot.sessions) :
                           snapshot.sessions[i].queryCount >= 201}) >= 3)

\* exactly three sessions of 201 queries beside sessions of 200: emitted
C13_Witness ==
  /\ "marathon-sessions" \in Ids
  /\ Cardinality({i \in 1..Len(snapshot.sessions) :
                     snapshot.sessions[i].queryCount = 201}) = 3
  /\ \E i \in 1..Len(snapshot.sessions) : snapshot.sessions[i].queryCount = 200

\* ---- C14: order of the sessions and of the daily buckets
KnownDates(ss) == {ss[i].date : i \in 1..Len(ss)} \ {"unknown"}

\* C14: in the aggregate parseAllSessions returns, sessions are in
\* non-increasing totalTokens order and dailyUsage holds exactly one bucket
\* per distinct known date, in strictly ascending date order.
C14_SortedSessionsAndDays ==
  pc = "done" =>
    /\ \A i, j \in 1..Len(out.sessions) :
         i < j => out.sessions[i].totalTokens >= out.sessions[j].totalTokens
    /\ \A i, j \in 1..Len(out.dailyUsage) :
         i < j => DateRank(out.dailyUsage[i].date) < DateRank(out.dailyUsage[j].date)
    /\ {out.dailyUsage[i].date : i \in 1..Len(out.dailyUsage)}
         = KnownDates(out.sessions)

\* two transcripts read in ascending order of tokens and descending order
\* of date: both lists had to be reordered
C14_Witness ==
  /\ pc = "done"
  /\ Len(corpus) = 2
  /\ corpus[1].stamp = Stamp2 /\ corpus[2].stamp = Stamp1
  /\ Len(out.sessions) = 2 /\ Len(out.dailyUsage) = 2
  /\ out.sessions[1].sessionId = 2
  /\ out.sessions[1].totalTokens > out.sessions[2].totalTokens


\* ---- C15: overlapping passes and the cache
PassRoutes == {"timer", "data", "refresh"}
NoPassInFlight == \A r \in PassRoutes : handlers[r].pc = "idle"

\* C15: once every pass of the timer, of /api/refresh and of /api/data has
\* completed, the cached aggregate is the result of the pass that started last.
C15_LastStartedWins ==
  (NoPassInFlight /\ started > 0) => cachedData.pass = started

\* ---- C16: the numbers the instruments report
\* the number of the aggregate output an instrument stands for on an
\* attribute set
AggregateNumber(data, name, attrs) ==
  LET Here(s) == attrs = Attrs(s.model, s.project, s.date)
      InProject(s) == attrs = Attrs(Null, s.project, Null)
      OnDay(d) == attrs = Attrs(Null, Null, d.date)
      OfModel(m) == attrs = Attrs(m.model, Null, Null)
      Input(x) == x.inputTokens
      Output(x) == x.outputTokens
      Total(x) == x.totalTokens
      Queries(x) == x.queryCount
      Sessions(x) == x.sessions
  IN CASE name = "tokens.input" -> SumOf(SelectSeq(data.sessions, Here), Input)
       [] name = "tokens.output" -> SumOf(SelectSeq(data.sessions, Here), Output)
       [] name = "queries" -> SumOf(SelectSeq(data.sessions, Here), Queries)
       [] name = "sessions" -> Count(data.sessions, InProject)
       [] name = "session.tokens" -> SumOf(SelectSeq(data.sessions, Here), Total)
       [] name = "session.queries" -> SumOf(SelectSeq(data.sessions, Here), Queries)
       [] name = "daily.tokens.input" -> SumOf(SelectSeq(data.dailyUsage, OnDay), Input)
       [] name = "daily.tokens.output" -> SumOf(SelectSeq(data.dailyUsage, OnDay), Output)
       [] name = "daily.sessions" -> SumOf(SelectSeq(data.dailyUsage, OnDay), Sessions)
       [] name = "model.tokens.input" -> SumOf(SelectSeq(data.modelBreakdown, OfModel), Input)
       [] name = "model.tokens.output" -> SumOf(SelectSeq(data.modelBreakdown, OfModel), Output)
       [] name = "model.queries" -> SumOf(SelectSeq(data.modelBreakdown, OfModel), Queries)

\* C16: while the files are unchanged, every value an export cycle reports
\* equals the number of the aggregate output for its instrument and attribute
\* set, however many cycles ran on the pipeline before.
C16_ValuesEqualAggregate ==
  disk = 0 =>
    \A p \in reported.points : p.sum = AggregateNumber(ParsedData(0), p.name, p.attrs)

\* ---- C17: a connect request whose endpoint test fails
ConnectTesting ==
  /\ handlers["connect"].pc = "idle"
  /\ handlers'["connect"].pc = "testing"
ConnectRejected ==
  /\ handlers["connect"].pc = "testing"
  /\ handlers'["connect"].pc = "idle"
  /\ handlers'["connect"].error = "unreachable"

\* C17: the steps of a connect request whose connectivity test fails (the
\* request up to the test, and the failure) leave the pipeline, its provider
\* and meter, the status object and the export timer as they were, and the
\* failure responds with status 400.
C17_FailedTestChangesNothing ==
  [][(ConnectTesting \/ ConnectRejected) =>
       /\ UNCHANGED <<currentOtel, meterProvider, meter, otlpStatus, exportTimer>>
       /\ ConnectRejected => handlers'["connect"].response = 400]_vars

\* a failed test while a pipeline of the command line exports on its timer
C17_Witness ==
  /\ handlers["connect"].error = "unreachable"
  /\ handlers["connect"].response = 400
  /\ currentOtel = 1 /\ meter.live /\ exportTimer = 1
  /\ otlpStatus.enabled /\ otlpStatus.exports > 0


\* ---- C18: the export and the content of the conversation
\* prompt texts a user may have typed instead
Texts == {"fix", "yes", WdBeta, WdAlpha}
IsPromptEntry(r, e) ==
  IF r = "codex" THEN e.type = "response_item" /\ e.role = "user"
  ELSE e.type = "user" /\ e.isString

\* the entries that differ from e in the text of the prompt only
Rewrites(r, e) ==
  IF IsPromptEntry(r, e) /\ e.text \in Texts
  THEN {[e EXCEPT !.text = t] : t \in Texts}
  ELSE {e}

\* the transcripts that differ from es in prompt texts only
Variants(r, es) ==
  {es2 \in [1..Len(es) -> UNION {Rewrites(r, es[i]) : i \in 1..Len(es)}] :
     \A i \in 1..Len(es) : es2[i] \in Rewrites(r, es[i])}

\* the aggregate of a directory that holds the one transcript file
ParseOf(r, file) ==
  Finalize(RevisionOf(r),
           RecordSession(r, NoSessions,
                         ScanFrom(r, file.entries, file.stamp, 1, StartOfFile).queries,
                         file.entries, file.stamp, file.project, 1),
           [dynamicPricing |-> NotLoaded, fetchAttempted |-> FALSE,
            pricingCache |-> NotLoaded],
           [ok |-> FALSE, models |-> EmptyTable]).out

\* what the first export of a pipeline reports for an aggregate
FirstReport(data) == RecordAll({}, exportMeasurements(data))

\* C18: a transcript that differs from the parsed one only in the texts of
\* its user prompts exports the same instruments, attribute sets and values.
C18_ContentIndependent ==
  (pc = "done" /\ Len(corpus) = 1) =>
    \A es2 \in Variants(reader, corpus[1].entries) :
       FirstReport(ParseOf(reader, [corpus[1] EXCEPT !.entries = es2])) = FirstReport(out)


\* ---- C19: where the groupers cut a session
\* the prompt of the group that is open when query i arrives (Null: none)
OpenPromptBefore(qs, i) ==
  LET ks == {k \in 1..(i - 1) : qs[k].userPrompt # Null}
  IN IF ks = {} THEN Null
     ELSE qs[CHOOSE k \in ks : \A j \in ks : j <= k].userPrompt

\* the queries that carry a non-null prompt different from the open one
Boundaries(qs) ==
  {i \in 1..Len(qs) : qs[i].userPrompt # Null
                        /\ qs[i].userPrompt # OpenPromptBefore(qs, i)}

\* the queries from boundary b up to the next boundary
Span(qs, b) == {i \in b..Len(qs) : \A j \in (b + 1)..i : j \notin Boundaries(qs)}

Members(g) == {g.members[i] : i \in 1..Len(g.members)}

\* the groups of the global list, and of the per-project lists
GlobalGroups == {out.allPrompts[k] : k \in 1..Len(out.allPrompts)}
ProjectGroups ==
  UNION {{out.projectBreakdown[p].topPrompts[k] :
            k \in 1..Len(out.projectBreakdown[p].topPrompts)} :
         p \in 1..Len(out.projectBreakdown)}

\* the groups gs cut the queries of session s at its boundaries
CutAtBoundaries(gs, s) ==
  LET mine == {g \in gs : g.sessionId = s.sessionId}
      qs == s.queries
  IN /\ \A g \in mine :
          \E b \in Boundaries(qs) :
             Members(g) = Span(qs, b) /\ g.prompt = qs[b].userPrompt
     /\ \A b \in Boundaries(qs) :
          (\E i \in Span(qs, b) : qs[i].inputTokens + qs[i].outputTokens > 0)
            => \E g \in mine : Members(g) = Span(qs, b)
     /\ \A g \in mine : Len(g.members) = Cardinality(Members(g))

NullPrompts(g, s) == {i \in Members(g) : s.queries[i].userPrompt = Null}

\* C19: both groupers close the open group and open a new one exactly at the
\* queries that carry a non-null prompt different from the open group's; every
\* other query is absorbed, and a group of a per-project list (parser.js:1114
\* keeps none) counts in continuations the null-prompt queries it absorbed.
C19_GroupBoundaries ==
  pc = "done" =>
    \A k \in 1..Len(out.sessions) :
       /\ CutAtBoundaries(GlobalGroups, out.sessions[k])
       /\ reader # "parser.js:1114" => CutAtBoundaries(ProjectGroups, out.sessions[k])
       /\ \A g \in ProjectGroups :
            g.sessionId = out.sessions[k].sessionId
              => g.continuations = Cardinality(NullPrompts(g, out.sessions[k]))

\* a group that absorbed a null-prompt query, and a session cut into two groups
C19_Witness ==
  /\ pc = "done"
  /\ \E g \in ProjectGroups : g.continuations = 1 /\ Len(g.members) = 2
  /\ \E g \in GlobalGroups, h \in GlobalGroups :
       g.sessionId = h.sessionId /\ g.prompt # h.prompt

\* ---- C20: the context depth of a group
SessionOf(g) == CHOOSE k \in 1..Len(out.sessions) : out.sessions[k].sessionId = g.sessionId

\* the input tokens of the queries of the session before query number first
InputBefore(s, first) == SumOf(SubSeq(s.queries, 1, first - 1), LAMBDA q : q.inputTokens)

\* C20: contextTokensAtTurn of a group is the sum of inputTokens of the queries
\* of its session before its first query (0 when it starts the session), and
\* it does not decrease from a group to a later group of the session.
C20_ContextDepth ==
  (pc = "done" /\ reader = "parser.js:99") =>
    \A g \in GlobalGroups :
       /\ g.contextTokensAtTurn = InputBefore(out.sessions[SessionOf(g)], g.members[1])
       /\ g.members[1] = 1 => g.contextTokensAtTurn = 0
       /\ \A h \in GlobalGroups :
            (h.sessionId = g.sessionId /\ g.members[1] < h.members[1])
              => g.contextTokensAtTurn <= h.contextTokensAtTurn

\* a session with two groups at growing depth, after a session with queries
C20_Witness ==
  /\ pc = "done" /\ reader = "parser.js:99"
  /\ Len(out.sessions) = 2
  /\ \E g \in GlobalGroups, h \in GlobalGroups :
       /\ g.sessionId = 2 /\ h.sessionId = 2
       /\ 0 < g.contextTokensAtTurn /\ g.contextTokensAtTurn < h.contextTokensAtTurn
  /\ \E g \in GlobalGroups : g.sessionId = 1 /\ g.contextTokensAtTurn = 0


\* ---- C21: the primary model of a session
SentinelLabels == {UNKNOWN, GeminiUnknown, GptUnknown}
LabelCount(qs, m) == Cardinality({i \in 1..Len(qs) : qs[i].model = m})
NamedLabels(qs) == {qs[i].model : i \in 1..Len(qs)} \ SentinelLabels

\* C21: the primary model of a session is a most frequent label among the
\* non-sentinel labels of its queries, and a sentinel label only when no query
\* carries another label.
C21_PluralityOfNamedLabels ==
  pc = "done" =>
    \A k \in 1..Len(out.sessions) :
       LET s == out.sessions[k]
       IN IF NamedLabels(s.queries) = {} THEN s.model \in SentinelLabels
          ELSE /\ s.model \in NamedLabels(s.queries)
               /\ \A n \in NamedLabels(s.queries) :
                    LabelCount(s.queries, s.model) >= LabelCount(s.queries, n)


\* ---- C22: the tool-heavy rule
UserMessages(s) == s.userMessages
ToolCalls(s) == s.queryCount - s.userMessages
Sessions == {i \in 1..Len(snapshot.sessions) : TRUE}

\* C22 as stated: the tool-heavy insight is emitted whenever at least three
\* sessions have toolCalls > 3 x userMessages, whatever the number of sessions.
C22_AnyTotal ==
  insights # NoInsights =>
    (Cardinality({i \in Sessions :
                    ToolCalls(snapshot.sessions[i])
                      > 3 * UserMessages(snapshot.sessions[i])}) >= 3
       => "tool-heavy" \in Ids)

\* C22 amended: the tool-heavy insight is emitted exactly when the snapshot
\* has at least five sessions and at least three of them have a user message
\* and toolCalls > 3 x userMessages.
C22_FiveSessions ==
  insights # NoInsights =>
    ("tool-heavy" \in Ids
       <=> /\ Len(snapshot.sessions) >= 5
           /\ Cardinality({i \in Sessions :
                             /\ UserMessages(snapshot.sessions[i]) >= 1
                             /\ ToolCalls(snapshot.sessions[i])
                                  > 3 * UserMessages(snapshot.sessions[i])}) >= 3)

\* five sessions, exactly three of them tool-heavy, one without a user message
C22_Witness ==
  /\ "tool-heavy" \in Ids
  /\ Len(snapshot.sessions) = 5
  /\ Cardinality({i \in Sessions :
                    /\ UserMessages(snapshot.sessions[i]) >= 1
                    /\ ToolCalls(snapshot.sessions[i])
                         > 3 * UserMessages(snapshot.sessions[i])}) = 3
  /\ \E i \in Sessions : UserMessages(snapshot.sessions[i]) = 0

\* ---- C23: the project-dominance rule
ProjectsOf(ss) == {ss[i].project : i \in 1..Len(ss)}
ShareOf(ss, proj) ==
  SumSeq([i \in 1..Len(ss) |-> IF ss[i].project = proj THEN ss[i].totalTokens ELSE 0])
GrandTotal(ss) == SumSeq([i \in 1..Len(ss) |-> ss[i].totalTokens])

\* the largest project holds at least 60% of the grand total
TopShare60(ss) ==
  \E proj \in ProjectsOf(ss) :
     /\ \A other \in ProjectsOf(ss) : ShareOf(ss, other) <= ShareOf(ss, proj)
     /\ 100 * ShareOf(ss, proj) >= 60 * GrandTotal(ss)

\* C23: the project-dominance insight is emitted exactly when the sessions
\* name at least two projects and the largest project holds at least 60% of
\* the grand total: a share below 60% never triggers it.
C23_SixtyPercent ==
  insights # NoInsights =>
    ("project-dominance" \in Ids
       <=> /\ Cardinality(ProjectsOf(snapshot.sessions)) >= 2
           /\ TopShare60(snapshot.sessions))

\* ---- C24: the high-rework rule
\* a file of the group was written more than once
WrittenTwice(p) ==
  \E i, j \in 1..Len(p.writes) : i < j /\ p.writes[i] = p.writes[j]

\* C24: the high-rework insight is emitted exactly when more than five prompt
\* groups hold a file written more than once; a group with one file written
\* exactly twice counts.
C24_WrittenMoreThanOnce ==
  (insights # NoInsights /\ insights.revision = "parser.js:99") =>
    ("high-rework" \in Ids
       <=> Cardinality({i \in 1..Len(snapshot.allPrompts) :
                          WrittenTwice(snapshot.allPrompts[i])}) > 5)


\* ---- C25: the project of a session with working-directory markers
Markers(es) == {workingDirectory(es[i]) : i \in 1..Len(es)} \ {Null}
Tally(es, wd) == Cardinality({i \in 1..Len(es) : workingDirectory(es[i]) = wd})
FirstAt(es, wd) == CHOOSE i \in 1..Len(es) :
                     workingDirectory(es[i]) = wd
                       /\ \A j \in 1..(i - 1) : workingDirectory(es[j]) # wd

\* wd wins the tally of the transcript: no value occurs more often, and none
\* that occurs as often occurs earlier
Wins(es, wd) ==
  /\ wd \in Markers(es)
  /\ \A other \in Markers(es) \ {wd} :
       \/ Tally(es, other) < Tally(es, wd)
       \/ Tally(es, other) = Tally(es, wd) /\ FirstAt(es, wd) < FirstAt(es, other)

\* C25 as stated: the project is the encoding of the winning marker value
\* when the encoding differs from the folder, the folder otherwise.
C25_EncodingIfDifferent ==
  (pc = "done" /\ reader = "part_002:688") =>
    \A k \in 1..Len(out.sessions) :
       LET s == out.sessions[k]
           file == corpus[s.sessionId]
       IN /\ Markers(file.entries) = {} => s.project = file.project
          /\ \A wd \in Markers(file.entries) :
               Wins(file.entries, wd) =>
                 s.project = IF pathToProjectDir(wd) # file.project
                             THEN pathToProjectDir(wd) ELSE file.project

\* C25 amended: the project is the encoding of the winning marker value when
\* the encoding differs from the folder by more than the case of its
\* letters, the folder otherwise.
C25_EncodingIfDifferentIgnoringCase ==
  (pc = "done" /\ reader = "part_002:688") =>
    \A k \in 1..Len(out.sessions) :
       LET s == out.sessions[k]
           file == corpus[s.sessionId]
       IN /\ Markers(file.entries) = {} => s.project = file.project
          /\ \A wd \in Markers(file.entries) :
               Wins(file.entries, wd) =>
                 s.project = IF toLowerCase(pathToProjectDir(wd))
                                  # toLowerCase(file.project)
                             THEN pathToProjectDir(wd) ELSE file.project

\* a transcript whose majority marker renames the project, beside one whose
\* marker names its own folder in another case
C25_Witness ==
  /\ pc = "done" /\ reader = "part_002:688"
  /\ \E k \in 1..Len(out.sessions) :
       /\ out.sessions[k].project = "D--beta"
       /\ Cardinality(Markers(corpus[out.sessions[k].sessionId].entries)) = 2
  /\ \E k \in 1..Len(out.sessions) :
       /\ out.sessions[k].project = "alpha"
       /\ Markers(corpus[out.sessions[k].sessionId].entries) = {"Alpha"}


\* ---- C26
OperationsDone ==
  handlers["connect"].pc = "idle" /\ handlers["disconnect"].pc = "idle"

\* C26: after any sequence of connect, disconnect and server-start operations
\* at most one interval is set, and it is the one exportTimer holds; when the
\* operations have responded an interval is set exactly when a pipeline is
\* connected, so a pass of the timer can start while connected and none is
\* set after a disconnect
C26_OneTimerWhileConnected ==
  /\ Cardinality(timers) <= 1
  /\ timers = IF exportTimer = 0 THEN {} ELSE {exportTimer}
  /\ OperationsDone => (timers # {} <=> currentOtel # 0)
  /\ (OperationsDone /\ currentOtel # 0 /\ handlers["timer"].pc = "idle"
        /\ started < MaxPasses) => ENABLED Tick

\* a second connect after the one of the command line has responded 200 and
\* one interval is set; and a disconnect after a connect has responded
C26_Witness ==
  /\ OperationsDone /\ handlers["connect"].response = 200
  /\ pipelines = 2 /\ currentOtel = 2 /\ Cardinality(timers) = 1

C26_WitnessDisconnected ==
  /\ OperationsDone /\ handlers["disconnect"].response = 200
  /\ handlers["connect"].response = 200 /\ currentOtel = 0 /\ timers = {}


\* ---- C27
\* two kept records with no prompt-setting user entry between them
SamePending(j1, j2) ==
  /\ j1 < j2
  /\ IsKept(reader, entries[j1]) /\ IsKept(reader, entries[j2])
  /\ \A k \in (j1 + 1)..(j2 - 1) : ~IsPrompt(reader, entries[k])

\* C27: in the Codex reader the pending user message is cleared once it was
\* paired with a token_count event: a later token_count event before the
\* next user message emits a query with userPrompt and userTimestamp null,
\* so each user message text is attached to at most one query; the Claude
\* and Gemini readers keep the pending message, so the later record carries
\* the same userPrompt and userTimestamp as the earlier one.
C27_CodexClearsOthersKeep ==
  /\ \A j \in 1..Len(entries) :
       IsKept(reader, entries[j]) => Cardinality(QueryAt(j)) = 1
  /\ \A j1, j2 \in 1..Len(entries) :
       SamePending(j1, j2) =>
         \A n1 \in QueryAt(j1), n2 \in QueryAt(j2) :
           IF reader = "codex"
           THEN queries[n2].userPrompt = Null /\ queries[n2].userTimestamp = Null
           ELSE /\ queries[n2].userPrompt = queries[n1].userPrompt
                /\ queries[n2].userTimestamp = queries[n1].userTimestamp
  /\ (reader = "codex" /\ Len(entries) > 0
        /\ IsKept(reader, entries[Len(entries)]))
       => pendingUserMessage = NoPending

\* a Codex user message followed by two token_count events: the first query
\* has its text, the second has none
C27_Witness ==
  /\ reader = "codex" /\ Len(entries) = 3
  /\ IsPrompt(reader, entries[1]) /\ entries[1].text = "fix"
  /\ SamePending(2, 3)
  /\ Len(queries) = 2
  /\ queries[1].userPrompt = "fix" /\ queries[2].userPrompt = Null

\* a Claude user message followed by two usage records: both queries have
\* its text
C27_WitnessKept ==
  /\ reader = "parser.js:1114" /\ Len(entries) = 3
  /\ IsPrompt(reader, entries[1]) /\ entries[1].text = "fix"
  /\ SamePending(2, 3)
  /\ Len(queries) = 2
  /\ queries[1].userPrompt = "fix" /\ queries[2].userPrompt = "fix"


\* ---- C28
\* C28: after the watcher's timeout invalidated the cache, the data cached
\* (and so served by later /api/data requests) comes from a pass that
\* started after the invalidation and has read the files as they were at
\* the invalidation or later; a pass in flight at the invalidation does not
\* repopulate the cache.
C28_CacheNewerThanInvalidation ==
  cachedData # NoData =>
    /\ cachedData.pass > invalidated.pass
    /\ cachedData.version >= invalidated.version

\* a later /api/data request was served the aggregate of a pass that read
\* the files before the change the cache was invalidated for
C28_StaleServed ==
  /\ invalidated.version = 1 /\ debounceTimer = 0
  /\ cachedData = [pass |-> 1, version |-> 0]
  /\ handlers["refresh"].pc = "idle" /\ handlers["refresh"].data = cachedData
  /\ handlers["data"].pc = "idle" /\ handlers["data"].data = cachedData
  /\ handlers["data"].response = 200


\* ---- C29
\* a status without a connection is exactly { enabled: false }
StaysDisabled == ~otlpStatus.enabled => otlpStatus = Disabled

\* a step that counts an export on the status of a connection ends an export
\* that was made through the pipeline of that connection
CountsOwnExports ==
  (otlpStatus.enabled /\ otlpStatus'.enabled
     /\ otlpStatus'.exports = otlpStatus.exports + 1)
    => \E r \in Routes :
         /\ handlers[r].pc = "exporting" /\ handlers'[r].pc = "idle"
         /\ handlers[r].otel = currentOtel

\* C29: once a disconnect has completed the status stays exactly
\* { enabled: false }, and the export count of a later connection counts
\* only exports made through that connection, also when a tick of the timer
\* or a parseAndExport call was in flight at the disconnect or reconnect.
C29_StatusOfCurrentConnection == []StaysDisabled /\ [][CountsOwnExports]_vars

\* the export of a refresh that started before the disconnect resolved
\* after it and wrote lastExport on the status { enabled: false }
C29_WrittenAfterDisconnect ==
  /\ handlers["disconnect"].pc = "idle" /\ handlers["disconnect"].response = 200
  /\ handlers["connect"].pc = "idle"
  /\ currentOtel = 0 /\ ~otlpStatus.enabled /\ otlpStatus.lastExport = "now"


\* ---- C30
\* C30: under any interleaving of connect and disconnect requests at most
\* one meter provider that has not been shut down exists: a provider that
\* initOTLP created is the one in use for exports or has been shut down.
C30_OneLiveProvider ==
  /\ meter.others = {}
  /\ meter.live => meter.pipeline = currentOtel

\* a disconnect that overlapped a connect has responded: no pipeline is in
\* use, the module no longer refers to the provider the connect created,
\* and that provider was not shut down
C30_Leaked ==
  /\ handlers["connect"].pc = "idle" /\ handlers["disconnect"].pc = "idle"
  /\ handlers["disconnect"].response = 200
  /\ currentOtel = 0 /\ meterProvider = 0
  /\ meter.live /\ meter.pipeline = pipelines

====
